---- MODULE Spec2Model ----
(***************************************************************************)
(* Polymarket Edge Finder: the ingestion reconciler of                     *)
(* scripts/05_ingest_data.py over the tables of                            *)
(* scripts/04_setup_database.py, the field extractor of                    *)
(* scripts/01_discover_markets.py, and the market filter and order book    *)
(* summarizer of scripts/02_collect_live_prices.py and                     *)
(* scripts/03_collect_historical_prices.py.                                *)
(***************************************************************************)
EXTENDS Integers, Sequences, FiniteSets, Bags, TLC

VARIABLES
    markets,        \* table markets: bag of rows
    live_prices,    \* table live_prices: bag of rows
    price_history,  \* table price_history: bag of rows
    seq,            \* next value of the sequence seq_price_history
    now,            \* the store's CURRENT_TIMESTAMP
    pc,             \* "idle" | "returned" | "raised": the position of the run of stage 05
    call,           \* the ingest call of the current run: op, argument, result
    pre,            \* the three tables as they were when that call started
    latest,         \* history: market_id -> the last market record processed
    calls,          \* number of ingest calls made so far
    market,         \* the raw market record given to extract_token_ids
    extracted,      \* what extract_token_ids did with it
    filterIn,       \* the stage, the current time and the list given to filter_markets
    filtered,       \* what filter_markets did with it
    refiltered,     \* what filter_markets did with the list it admitted
    orderbook,      \* the order book given to parse_orderbook
    prices,         \* what parse_orderbook did with it
    rate_limit_delay,   \* PolymarketClient.rate_limit_delay, in ticks
    jsonErrorRetried,   \* the installed requests raises its own JSONDecodeError
    wall,               \* time.time(), in ticks of half a second
    last_request_time,  \* PolymarketClient.last_request_time
    clientPc,           \* "idle" | "attempting" | "backoff" | "done"
    request,            \* the public method of the client being called
    attempt,            \* attempts of _make_request made for this call
    outcomes,           \* what each attempt of this call met
    reply,              \* what the public method gave its caller
    sent,               \* the start time of every outbound request so far
    catalogue,          \* the markets the Gamma API lists, in its order
    active_only,        \* fetch_all_markets: the argument
    offset,             \* fetch_all_markets: offset
    fetchPc,            \* "idle" | "running" | "returned" | "raised"
    all_markets,        \* fetch_all_markets: all_markets
    requested,          \* the offsets get_markets was called with, in order
    pagesFetched,       \* the pages get_markets returned, in order
    collectIn,          \* the stage and the list given to its collect function
    collectAt,          \* the position of `for i, market in enumerate(markets, 1)`
    collected,          \* live_prices of stage 02 / historical_data of stage 03
    fetches,            \* the calls of get_orderbook / get_prices_history so far
    collectPc,          \* "idle" | "running" | "returned" | "raised"
    stageRun,           \* the stage script run, and the files and replies it met
    stagePc,            \* "idle" | "exited"
    exitStatus,         \* the exit status of the process
    stageLog,           \* the steps of main() that were completed
    written             \* the artifact the stage wrote, if any

ingestVars == <<markets, live_prices, price_history, seq, now, pc, call, pre, latest, calls>>
extractVars == <<market, extracted>>
filterVars == <<filterIn, filtered, refiltered>>
bookVars == <<orderbook, prices>>
clientVars == <<rate_limit_delay, jsonErrorRetried, wall, last_request_time, clientPc,
                request, attempt, outcomes, reply, sent>>
fetchVars == <<catalogue, active_only, offset, fetchPc, all_markets, requested,
               pagesFetched>>
collectVars == <<collectIn, collectAt, collected, fetches, collectPc>>
exitVars == <<stageRun, stagePc, exitStatus, stageLog, written>>
stageVars == <<clientVars, fetchVars, collectVars, exitVars>>
vars == <<markets, live_prices, price_history, seq, now, pc, call, pre, latest, calls,
          market, extracted, filterIn, filtered, refiltered, orderbook, prices,
          stageVars>>

----------------------------------------------------------------------------
(* Python values.  Every value is a tagged tuple, so that values of        *)
(* different Python types can be compared.                                 *)

None == <<"none">>
PStr(s) == <<"str", s>>
PInt(n) == <<"int", n>>
PFloat(h) == <<"float", h>>          \* a float, in hundredths
PList(s) == <<"list", s>>
PDict(f) == <<"dict", f>>
PBool(b) == <<"bool", b>>

IsNone(v) == v[1] = "none"
IsStr(v) == v[1] = "str"
IsList(v) == v[1] = "list"
IsDict(v) == v[1] = "dict"

\* bool(v)
Truthy(v) ==
    CASE v[1] = "none" -> FALSE
      [] v[1] = "str" -> v[2] # ""
      [] v[1] = "int" -> v[2] # 0
      [] v[1] = "float" -> v[2] # 0
      [] v[1] = "list" -> Len(v[2]) > 0
      [] v[1] = "dict" -> DOMAIN v[2] # {}
      [] v[1] = "bool" -> v[2]

\* d.get(k) and d.get(k, default) of a dict d
Get(d, k) == IF k \in DOMAIN d[2] THEN d[2][k] ELSE None
GetOr(d, k, default) == IF k \in DOMAIN d[2] THEN d[2][k] ELSE default

\* the sequences over S of length at most n
RECURSIVE SeqsUpTo(_, _)
SeqsUpTo(S, n) ==
    IF n = 0 THEN {<<>>}
    ELSE LET shorter == SeqsUpTo(S, n - 1)
         IN shorter \cup {Append(s, x) : s \in {t \in shorter : Len(t) = n - 1}, x \in S}

\* number of copies in bag B of the rows that satisfy P
RECURSIVE SumCopies(_, _)
SumCopies(B, rows) ==
    IF rows = {} THEN 0
    ELSE LET r == CHOOSE x \in rows : TRUE
         IN CopiesIn(r, B) + SumCopies(B, rows \ {r})

RowCount(B) == SumCopies(B, BagToSet(B))

\* INSERT INTO a table of one row
InsertRow(B, row) == B (+) SetToBag({row})

----------------------------------------------------------------------------
(* Bounds and sample inputs                                                *)

MaxBatch == 2       \* longest list given to ingest_markets / ingest_live_prices
MaxClock == 2       \* the store's clock runs from 1 to MaxClock
MaxCalls == 2       \* ingest calls in a behaviour of Spec

M1 == PStr("0xM1")
M2 == PStr("0xM2")
YesTok == PStr("111111111111")
NoTok == PStr("222222222222")
\* datetime.now(timezone.utc).isoformat() of two collection runs
T1 == PStr("2024-01-01T00:00:00+00:00")
T2 == PStr("2024-01-01T00:05:00+00:00")

\* a value that is not a mapping (a JSON null inside the array)
NotADict == None

----------------------------------------------------------------------------
(* ingest_live_prices                                                      *)

LiveColumns ==
    {"market_id", "question", "yes_token_id", "no_token_id",
     "yes_best_bid", "yes_best_ask", "yes_mid_price", "yes_spread",
     "no_best_bid", "no_best_ask", "no_mid_price", "no_spread", "timestamp"}

\* the row the INSERT of ingest_live_prices writes for snapshot `price`
LiveRow(price, market_id, timestamp) ==
    [c \in LiveColumns |->
        CASE c = "market_id" -> market_id
          [] c = "timestamp" -> timestamp
          [] OTHER -> Get(price, c)]

\* SELECT id FROM live_prices WHERE market_id = ? AND timestamp = ?
LiveExisting(tbl, market_id, timestamp) ==
    \E r \in BagToSet(tbl) : r.market_id = market_id /\ r.timestamp = timestamp

\* The mutants of LiveLoopBody: no existence check; overwrite on a match.
LiveLoopBodyNoCheck(st, price) ==
    IF ~IsDict(price) THEN [st EXCEPT !.raised = TRUE]
    ELSE LET market_id == Get(price, "market_id")
             timestamp == Get(price, "timestamp")
         IN IF ~Truthy(market_id) \/ ~Truthy(timestamp) THEN st
            ELSE [st EXCEPT !.tbl = InsertRow(@, LiveRow(price, market_id, timestamp)),
                            !.seq = @ + 1,
                            !.inserted = @ + 1]

LiveLoopBodyOverwrite(st, price) ==
    IF ~IsDict(price) THEN [st EXCEPT !.raised = TRUE]
    ELSE LET market_id == Get(price, "market_id")
             timestamp == Get(price, "timestamp")
             kept == {r \in BagToSet(st.tbl) :
                         ~(r.market_id = market_id /\ r.timestamp = timestamp)}
         IN IF ~Truthy(market_id) \/ ~Truthy(timestamp) THEN st
            ELSE IF LiveExisting(st.tbl, market_id, timestamp)
                 THEN [st EXCEPT !.tbl = InsertRow(SetToBag(kept),
                                                   LiveRow(price, market_id, timestamp)),
                                 !.skipped = @ + 1]
                 ELSE [st EXCEPT !.tbl = InsertRow(@, LiveRow(price, market_id, timestamp)),
                                 !.seq = @ + 1,
                                 !.inserted = @ + 1]

\* One iteration of `for price in live_prices_data`.  price.get on a value
\* that is not a mapping raises AttributeError.
LiveLoopBody(st, price) ==
    IF ~IsDict(price) THEN [st EXCEPT !.raised = TRUE]
    ELSE LET market_id == Get(price, "market_id")
             timestamp == Get(price, "timestamp")
         IN IF ~Truthy(market_id) \/ ~Truthy(timestamp) THEN st
            ELSE IF LiveExisting(st.tbl, market_id, timestamp)
                 THEN [st EXCEPT !.skipped = @ + 1]
                 ELSE [st EXCEPT !.tbl = InsertRow(@, LiveRow(price, market_id, timestamp)),
                                 !.seq = @ + 1,
                                 !.inserted = @ + 1]

RECURSIVE LiveLoop(_, _, _)
LiveLoop(st, data, i) ==
    IF i > Len(data) \/ st.raised THEN st
    ELSE LiveLoop(LiveLoopBody(st, data[i]), data, i + 1)

\* ingest_live_prices(conn, live_prices_data): the table and the sequence
\* afterwards, whether it raised, and its return value.  Every conn.execute
\* is its own transaction (no BEGIN is ever issued), so what the loop wrote
\* before an exception stays written.
ingest_live_prices(tbl, sq, live_prices_data) ==
    LET st0 == [tbl |-> tbl, seq |-> sq, inserted |-> 0, skipped |-> 0, raised |-> FALSE]
        st == IF Len(live_prices_data) = 0 THEN st0 ELSE LiveLoop(st0, live_prices_data, 1)
    IN [tbl |-> st.tbl, seq |-> st.seq, raised |-> st.raised, ret |-> st.inserted]

LiveRec(market_id, timestamp, bid) ==
    PDict([market_id |-> market_id, question |-> PStr("Q"),
           yes_token_id |-> YesTok, no_token_id |-> NoTok,
           yes_best_bid |-> bid, yes_best_ask |-> None,
           yes_mid_price |-> None, yes_spread |-> None,
           no_best_bid |-> None, no_best_ask |-> None,
           no_mid_price |-> None, no_spread |-> None,
           timestamp |-> timestamp])

LiveSamples ==
    {LiveRec(M1, T1, PFloat(40)), LiveRec(M1, T1, PFloat(45)),
     LiveRec(M1, T2, PFloat(40)), LiveRec(M2, T1, PFloat(40)),
     LiveRec(None, T1, PFloat(40)),
     PDict([market_id |-> M1, yes_best_bid |-> PFloat(40)]),
     NotADict}

LiveBatches == SeqsUpTo(LiveSamples, MaxBatch)

----------------------------------------------------------------------------
(* ingest_markets                                                          *)

\* json.dumps(v) of a string, a number, None or a list of them
RECURSIVE JsonDumps(_), JsonDumpsItems(_, _)
JsonDumps(v) ==
    CASE v[1] = "none" -> "null"
      [] v[1] = "str" -> "\"" \o v[2] \o "\""
      [] v[1] = "int" -> ToString(v[2])
      [] v[1] = "list" -> "[" \o JsonDumpsItems(v[2], 1) \o "]"
JsonDumpsItems(s, i) ==
    IF i > Len(s) THEN ""
    ELSE IF i = Len(s) THEN JsonDumps(s[i])
    ELSE JsonDumps(s[i]) \o ", " \o JsonDumpsItems(s, i + 1)

\* the columns the UPDATE of ingest_markets sets
MarketSetColumns ==
    {"question", "outcomes", "yes_token_id", "no_token_id", "ending_time", "category",
     "tags", "state", "volume", "liquidity", "url", "data_updated_at"}
MarketColumns == MarketSetColumns \cup {"id", "market_id", "created_at"}

\* the parameter the statements of ingest_markets bind to column c
MarketParam(rec, c) ==
    CASE c = "outcomes" -> PStr(JsonDumps(GetOr(rec, "outcomes", PList(<<>>))))
      [] c = "tags" -> PStr(JsonDumps(GetOr(rec, "tags", PList(<<>>))))
      [] OTHER -> Get(rec, c)

\* SELECT market_id FROM markets WHERE market_id = ?
MarketExisting(tbl, market_id) == \E r \in BagToSet(tbl) : r.market_id = market_id

\* UPDATE markets SET ... WHERE market_id = ?
RECURSIVE MarketsUpdateRows(_, _, _, _)
MarketsUpdateRows(tbl, rows, market_id, rec) ==
    IF rows = {} THEN EmptyBag
    ELSE LET r == CHOOSE x \in rows : TRUE
             w == IF r.market_id = market_id
                  THEN [c \in MarketColumns |->
                           IF c \in MarketSetColumns THEN MarketParam(rec, c) ELSE r[c]]
                  ELSE r
         IN (w :> CopiesIn(r, tbl)) (+) MarketsUpdateRows(tbl, rows \ {r}, market_id, rec)
\* The mutant of MarketsUpdate: the UPDATE without its WHERE clause.
MarketsUpdateNoWhere(tbl, market_id, rec) ==
    SetToBag({[c \in MarketColumns |->
                  IF c \in MarketSetColumns THEN MarketParam(rec, c) ELSE r[c]] :
              r \in BagToSet(tbl)})
MarketsUpdate(tbl, market_id, rec) == MarketsUpdateRows(tbl, BagToSet(tbl), market_id, rec)

\* INSERT INTO markets (...): id from nextval('seq_price_history'),
\* created_at from CURRENT_TIMESTAMP
MarketsInsert(tbl, sq, clock, market_id, rec) ==
    InsertRow(tbl, [c \in MarketColumns |->
                       CASE c = "id" -> PInt(sq)
                         [] c = "market_id" -> market_id
                         [] c = "created_at" -> PInt(clock)
                         [] OTHER -> MarketParam(rec, c)])

\* The mutants of MarketLoopBody: an existing row is left as it is; an update
\* is counted as an insert.
MarketLoopBodyKeepFirst(st, rec) ==
    IF ~IsDict(rec) THEN [st EXCEPT !.raised = TRUE]
    ELSE LET market_id == Get(rec, "market_id")
         IN IF ~Truthy(market_id) THEN st
            ELSE IF MarketExisting(st.tbl, market_id)
                 THEN [st EXCEPT !.updated = @ + 1]
                 ELSE [st EXCEPT !.tbl = MarketsInsert(@, st.seq, st.clock, market_id, rec),
                                 !.seq = @ + 1,
                                 !.inserted = @ + 1]

MarketLoopBodyMiscount(st, rec) ==
    IF ~IsDict(rec) THEN [st EXCEPT !.raised = TRUE]
    ELSE LET market_id == Get(rec, "market_id")
         IN IF ~Truthy(market_id) THEN st
            ELSE IF MarketExisting(st.tbl, market_id)
                 THEN [st EXCEPT !.tbl = MarketsUpdate(@, market_id, rec),
                                 !.inserted = @ + 1]
                 ELSE [st EXCEPT !.tbl = MarketsInsert(@, st.seq, st.clock, market_id, rec),
                                 !.seq = @ + 1,
                                 !.inserted = @ + 1]

\* One iteration of `for market in markets_data`.
MarketLoopBody(st, rec) ==
    IF ~IsDict(rec) THEN [st EXCEPT !.raised = TRUE]
    ELSE LET market_id == Get(rec, "market_id")
         IN IF ~Truthy(market_id) THEN st
            ELSE IF MarketExisting(st.tbl, market_id)
                 THEN [st EXCEPT !.tbl = MarketsUpdate(@, market_id, rec),
                                 !.updated = @ + 1]
                 ELSE [st EXCEPT !.tbl = MarketsInsert(@, st.seq, st.clock, market_id, rec),
                                 !.seq = @ + 1,
                                 !.inserted = @ + 1]

RECURSIVE MarketLoop(_, _, _)
MarketLoop(st, data, i) ==
    IF i > Len(data) \/ st.raised THEN st
    ELSE MarketLoop(MarketLoopBody(st, data[i]), data, i + 1)

\* ingest_markets(conn, markets_data)
ingest_markets(tbl, sq, clock, markets_data) ==
    LET st0 == [tbl |-> tbl, seq |-> sq, clock |-> clock,
                inserted |-> 0, updated |-> 0, raised |-> FALSE]
        st == IF Len(markets_data) = 0 THEN st0 ELSE MarketLoop(st0, markets_data, 1)
    IN [tbl |-> st.tbl, seq |-> st.seq, raised |-> st.raised,
        ret |-> <<st.inserted, st.updated>>]

\* a record of the market snapshot written by stage 01
MarketRec(market_id, question, state, liquidity) ==
    PDict([market_id |-> market_id, question |-> PStr(question),
           outcomes |-> PList(<<PStr("Yes"), PStr("No")>>),
           yes_token_id |-> YesTok, no_token_id |-> NoTok,
           ending_time |-> PStr("2099-01-01T00:00:00Z"),
           category |-> PStr("unknown"), tags |-> PList(<<>>),
           state |-> PStr(state), volume |-> PFloat(100000), liquidity |-> liquidity,
           url |-> PStr("https://polymarket.com/event/slug"),
           data_updated_at |-> T1])

MarketSamples ==
    {MarketRec(M1, "Will it rain?", "active", PFloat(15050)),
     MarketRec(M1, "Will it rain today?", "closed", PFloat(0)),
     MarketRec(M2, "Will it snow?", "active", PFloat(50000)),
     PDict([market_id |-> M2, question |-> PStr("Will it snow?")]),
     MarketRec(None, "No id", "active", PFloat(100)),
     NotADict}

MarketBatches == SeqsUpTo(MarketSamples, MaxBatch)

\* the records of `data` the loop gets through: all of them, or those
\* before the first one that is not a mapping
RECURSIVE Processed(_)
Processed(data) ==
    IF data = <<>> \/ ~IsDict(Head(data)) THEN <<>>
    ELSE <<Head(data)>> \o Processed(Tail(data))

\* market_id -> the last of the records `done` (in order) that carries it
RECURSIVE LatestAfter(_, _)
LatestAfter(known, done) ==
    IF done = <<>> THEN known
    ELSE LET rec == Head(done)
             market_id == Get(rec, "market_id")
         IN LatestAfter(IF Truthy(market_id) THEN (market_id :> rec) @@ known ELSE known,
                        Tail(done))

----------------------------------------------------------------------------
(* ingest_historical_prices                                                *)

Pad2(n) == IF n < 10 THEN "0" \o ToString(n) ELSE ToString(n)

\* datetime.fromtimestamp(t, tz=timezone.utc).isoformat() of whole epoch
\* seconds t >= 0: the civil date of day t \div 86400 of the proleptic
\* Gregorian calendar and the time of day, with the UTC offset
IsoFormat(t) ==
    LET days == t \div 86400
        secs == t % 86400
        z == days + 719468
        era == z \div 146097
        doe == z - era * 146097
        yoe == (doe - doe \div 1460 + doe \div 36524 - doe \div 146096) \div 365
        doy == doe - (365 * yoe + yoe \div 4 - yoe \div 100)
        mp == (5 * doy + 2) \div 153
        d == doy - (153 * mp + 2) \div 5 + 1
        m == IF mp < 10 THEN mp + 3 ELSE mp - 9
        y == yoe + era * 400 + (IF m <= 2 THEN 1 ELSE 0)
    IN ToString(y) \o "-" \o Pad2(m) \o "-" \o Pad2(d) \o "T"
         \o Pad2(secs \div 3600) \o ":" \o Pad2((secs % 3600) \div 60) \o ":"
         \o Pad2(secs % 60) \o "+00:00"

HistColumns ==
    {"market_id", "question", "yes_token_id", "no_token_id", "side", "price", "timestamp"}

\* the row the INSERT of ingest_historical_prices writes
HistRow(market_id, market_history, side, price, timestamp) ==
    [c \in HistColumns |->
        CASE c = "market_id" -> market_id
          [] c = "side" -> PStr(side)
          [] c = "price" -> price
          [] c = "timestamp" -> timestamp
          [] OTHER -> Get(market_history, c)]

\* The mutant of HistExisting: the side is left out of the comparison.
HistExistingAnySide(tbl, market_id, side, timestamp) ==
    \E r \in BagToSet(tbl) : r.market_id = market_id /\ r.timestamp = timestamp

\* SELECT id FROM price_history WHERE market_id = ? AND side = ? AND timestamp = ?
HistExisting(tbl, market_id, side, timestamp) ==
    \E r \in BagToSet(tbl) :
        r.market_id = market_id /\ r.side = PStr(side) /\ r.timestamp = timestamp

\* The mutant of HistPointBody: no existence check.
HistPointBodyNoCheck(st, market_id, market_history, side, point) ==
    IF ~IsDict(point) THEN [st EXCEPT !.raised = TRUE]
    ELSE LET timestamp_unix == Get(point, "t")
             price == Get(point, "p")
         IN IF IsNone(timestamp_unix) \/ IsNone(price) THEN st
            ELSE IF timestamp_unix[1] # "int" THEN [st EXCEPT !.raised = TRUE]
            ELSE LET timestamp == PStr(IsoFormat(timestamp_unix[2]))
                 IN [st EXCEPT !.tbl = InsertRow(@, HistRow(market_id, market_history,
                                                            side, price, timestamp)),
                               !.seq = @ + 1,
                               !.inserted = @ + 1]

\* The mutant of HistPointBody: a point without epoch or price is counted
\* with the duplicates.
HistPointBodyCountsMissing(st, market_id, market_history, side, point) ==
    IF ~IsDict(point) THEN [st EXCEPT !.raised = TRUE]
    ELSE LET timestamp_unix == Get(point, "t")
             price == Get(point, "p")
         IN IF IsNone(timestamp_unix) \/ IsNone(price) THEN [st EXCEPT !.skipped = @ + 1]
            ELSE IF timestamp_unix[1] # "int" THEN [st EXCEPT !.raised = TRUE]
            ELSE LET timestamp == PStr(IsoFormat(timestamp_unix[2]))
                 IN IF HistExisting(st.tbl, market_id, side, timestamp)
                    THEN [st EXCEPT !.skipped = @ + 1]
                    ELSE [st EXCEPT !.tbl = InsertRow(@, HistRow(market_id, market_history,
                                                                 side, price, timestamp)),
                                    !.seq = @ + 1,
                                    !.inserted = @ + 1]

\* One iteration of `for point in history_points`, of the YES series or of
\* the NO series.  point.get on a value that is not a mapping raises
\* AttributeError, fromtimestamp of a value that is not a number TypeError.
HistPointBody(st, market_id, market_history, side, point) ==
    IF ~IsDict(point) THEN [st EXCEPT !.raised = TRUE]
    ELSE LET timestamp_unix == Get(point, "t")
             price == Get(point, "p")
         IN IF IsNone(timestamp_unix) \/ IsNone(price) THEN st
            ELSE IF timestamp_unix[1] # "int" THEN [st EXCEPT !.raised = TRUE]
            ELSE LET timestamp == PStr(IsoFormat(timestamp_unix[2]))
                 IN IF HistExisting(st.tbl, market_id, side, timestamp)
                    THEN [st EXCEPT !.skipped = @ + 1]
                    ELSE [st EXCEPT !.tbl = InsertRow(@, HistRow(market_id, market_history,
                                                                 side, price, timestamp)),
                                    !.seq = @ + 1,
                                    !.inserted = @ + 1]

RECURSIVE HistPointLoop(_, _, _, _, _, _)
HistPointLoop(st, market_id, market_history, side, points, i) ==
    IF i > Len(points) \/ st.raised THEN st
    ELSE HistPointLoop(HistPointBody(st, market_id, market_history, side, points[i]),
                       market_id, market_history, side, points, i + 1)

\* "Process YES history" / "Process NO history": the series under `key`
HistSide(st, market_id, market_history, side, key) ==
    LET history == Get(market_history, key)
    IN IF st.raised \/ ~(Truthy(history) /\ IsDict(history)) THEN st
       ELSE LET history_points == GetOr(history, "history", PList(<<>>))
            IN IF ~IsList(history_points) THEN st
               ELSE HistPointLoop(st, market_id, market_history, side,
                                  history_points[2], 1)

\* One iteration of `for market_id, market_history in historical_data.items()`.
\* market_history.get on a truthy value that is not a mapping raises.
HistMarketBody(st, market_id, market_history) ==
    IF ~Truthy(market_history) THEN st
    ELSE IF ~IsDict(market_history) THEN [st EXCEPT !.raised = TRUE]
    ELSE HistSide(HistSide(st, market_id, market_history, "YES", "yes_history"),
                  market_id, market_history, "NO", "no_history")

RECURSIVE HistMarketLoop(_, _, _)
HistMarketLoop(st, items, i) ==
    IF i > Len(items) \/ st.raised THEN st
    ELSE HistMarketLoop(HistMarketBody(st, items[i][1], items[i][2]), items, i + 1)

\* ingest_historical_prices(conn, historical_data); historical_data is the
\* mapping given as the sequence of its (market_id, market_history) items
ingest_historical_prices(tbl, sq, historical_data) ==
    LET st0 == [tbl |-> tbl, seq |-> sq, inserted |-> 0, skipped |-> 0, raised |-> FALSE]
        st == IF Len(historical_data) = 0 THEN st0
              ELSE HistMarketLoop(st0, historical_data, 1)
    IN [tbl |-> st.tbl, seq |-> st.seq, raised |-> st.raised, ret |-> st.inserted,
        skipped |-> st.skipped]

MaxPoints == 2      \* most points in the series of one market of a payload

E1 == PInt(1700000000)
E2 == PInt(1700000060)
Point(t, p) == PDict([t |-> t, p |-> p])
PointSamples ==
    {Point(E1, PFloat(55)), Point(E1, PFloat(60)), Point(E2, PFloat(55)),
     PDict([p |-> PFloat(55)]), PDict([t |-> E1]), NotADict}

\* what get_prices_history returned for one token: nothing, or a series
History(points) == PDict([history |-> PList(points)])
HistorySamples(n) == {None} \cup {History(s) : s \in SeqsUpTo(PointSamples, n)}
NumPoints(history) == IF IsNone(history) THEN 0 ELSE Len(history[2].history[2])

\* the entry collect_historical_prices writes for one market
MarketHistory(market_id, yes_history, no_history) ==
    PDict([market_id |-> market_id, question |-> PStr("Q"),
           yes_token_id |-> YesTok, no_token_id |-> NoTok,
           data_collected_at |-> T1,
           yes_history |-> yes_history, no_history |-> no_history])

HistPayloads ==
    {<<>>}
    \cup {<< <<M1, MarketHistory(M1, yn[1], yn[2])>> >> :
             yn \in {h \in HistorySamples(MaxPoints) \X HistorySamples(MaxPoints) :
                        NumPoints(h[1]) + NumPoints(h[2]) <= MaxPoints}}
    \cup {<< <<M1, a>>, <<M2, b>> >> :
             a \in {None} \cup {MarketHistory(M1, History(<<x>>), None) : x \in PointSamples},
             b \in {None} \cup {MarketHistory(M2, History(<<x>>), None) :
                                     x \in {Point(E1, PFloat(55)), NotADict}}}

----------------------------------------------------------------------------
(* extract_token_ids                                                       *)

MaxTokens == 2      \* longest tagged-tokens array (tokens)

\* str(v) of a string, an integer or None
PyStr(v) ==
    CASE v[1] = "str" -> v[2]
      [] v[1] = "int" -> ToString(v[2])
      [] v[1] = "none" -> "None"

\* The mutant of ValidId: the length check lets a length of exactly 10 pass.
ValidIdFrom10(v) == Truthy(v) /\ Len(PyStr(v)) >= 10

\* `x and len(str(x)) > 10`
ValidId(v) == Truthy(v) /\ Len(PyStr(v)) > 10

\* The JSON text of a value: arrays, objects of the token keys, strings,
\* integers and null, with item separator sep.
TokenKeys == <<"outcome", "token_id", "tokenId">>
RECURSIVE JsonText(_, _), JsonTextItems(_, _, _), JsonTextMembers(_, _, _, _)
JsonText(v, sep) ==
    CASE v[1] = "none" -> "null"
      [] v[1] = "str" -> "\"" \o v[2] \o "\""
      [] v[1] = "int" -> ToString(v[2])
      [] v[1] = "list" -> "[" \o JsonTextItems(v[2], 1, sep) \o "]"
      [] v[1] = "dict" -> "{" \o JsonTextMembers(v[2], 1, TRUE, sep) \o "}"
JsonTextItems(s, i, sep) ==
    IF i > Len(s) THEN ""
    ELSE IF i = Len(s) THEN JsonText(s[i], sep)
    ELSE JsonText(s[i], sep) \o sep \o JsonTextItems(s, i + 1, sep)
JsonTextMembers(f, k, first, sep) ==
    IF k > Len(TokenKeys) THEN ""
    ELSE IF TokenKeys[k] \notin DOMAIN f THEN JsonTextMembers(f, k + 1, first, sep)
    ELSE (IF first THEN "" ELSE sep) \o "\"" \o TokenKeys[k] \o "\":"
            \o JsonText(f[TokenKeys[k]], sep) \o JsonTextMembers(f, k + 1, FALSE, sep)

\* identifiers as the API delivers them: long strings, a string of length
\* 10, numbers of 10 and 11 characters, null
IdA == PStr("111111111111")
IdB == PStr("222222222222")
Id10 == PStr("1234567890")
IdSamples == {IdA, IdB, Id10, PInt(1234567890), PInt(-1234567890), None}

Token(outcome, token_id) == PDict([outcome |-> outcome, token_id |-> token_id])
TokenAlt(outcome, tokenId) == PDict([outcome |-> outcome, tokenId |-> tokenId])
TokenSamples ==
    {Token(PStr("Yes"), IdA), Token(PStr("yes"), IdB), Token(PStr("YES"), Id10),
     TokenAlt(PStr("NO"), IdA),
     Token(PStr("Maybe"), IdA),
     Token(None, IdA),
     PDict([outcome |-> PStr("No"), token_id |-> Id10, tokenId |-> IdA]),
     PStr("x")}

\* paired-token arrays: every array of at most two entries (the code reads
\* entries 0 and 1 only) and two longer ones
IdLists ==
    {PList(s) : s \in SeqsUpTo(IdSamples, 2)}
    \cup {PList(<<IdA, IdB, Id10>>), PList(<<IdB, Id10, IdA>>)}
TokenLists == {PList(s) : s \in SeqsUpTo(TokenSamples, MaxTokens)}

\* every value a string of the sample records decodes to, with its texts
JsonUniverse == IdLists \cup TokenLists \cup {PInt(123), PDict(<<>>)}
JsonTexts == {<<JsonText(v, ","), v>> : v \in JsonUniverse}
               \cup {<<JsonText(v, ", "), v>> : v \in JsonUniverse}
JsonDecodable == {p[1] : p \in JsonTexts}

\* json.loads(s): the value whose JSON text s is; JSONDecodeError if none
JsonLoads(s) ==
    IF s \notin JsonDecodable THEN [ok |-> FALSE]
    ELSE [ok |-> TRUE, value |-> (CHOOSE p \in JsonTexts : p[1] = s)[2]]

\* "Check if ... is a JSON string and parse it"
ParseIfString(v) ==
    IF IsStr(v)
    THEN LET r == JsonLoads(v[2]) IN IF r.ok THEN r.value ELSE PList(<<>>)
    ELSE v

Raised == [state |-> "raised"]
Returned(yes_token_id, no_token_id) ==
    [state |-> "returned", yes_token_id |-> yes_token_id, no_token_id |-> no_token_id]

\* s.lower() of the outcome labels
Lower(s) ==
    CASE s \in {"Yes", "YES", "yes"} -> "yes"
      [] s \in {"No", "NO", "no"} -> "no"
      [] s = "Maybe" -> "maybe"
      [] s \in {"Closed", "CLOSED"} -> "closed"
      [] OTHER -> s

\* token.get('token_id') or token.get('tokenId')
TokenId(token) ==
    IF Truthy(Get(token, "token_id")) THEN Get(token, "token_id")
    ELSE Get(token, "tokenId")

\* The mutant of TokenLoopBody: an outcome once assigned is kept.
TokenLoopBodyFirstWins(st, token) ==
    IF ~IsDict(token) THEN [st EXCEPT !.raised = TRUE]
    ELSE IF ~IsStr(GetOr(token, "outcome", PStr(""))) THEN [st EXCEPT !.raised = TRUE]
    ELSE LET outcome == Lower(GetOr(token, "outcome", PStr(""))[2])
             token_id == TokenId(token)
         IN IF outcome = "yes" /\ ValidId(token_id) /\ IsNone(st.yes_token_id)
            THEN [st EXCEPT !.yes_token_id = token_id]
            ELSE IF outcome = "no" /\ ValidId(token_id) /\ IsNone(st.no_token_id)
            THEN [st EXCEPT !.no_token_id = token_id]
            ELSE st

\* One iteration of `for token in tokens`.  token.get on a value that is
\* not a mapping, and .lower() on a label that is not a string, raise
\* AttributeError.
TokenLoopBody(st, token) ==
    IF ~IsDict(token) THEN [st EXCEPT !.raised = TRUE]
    ELSE IF ~IsStr(GetOr(token, "outcome", PStr(""))) THEN [st EXCEPT !.raised = TRUE]
    ELSE LET outcome == Lower(GetOr(token, "outcome", PStr(""))[2])
             token_id == TokenId(token)
         IN IF outcome = "yes" /\ ValidId(token_id)
            THEN [st EXCEPT !.yes_token_id = token_id]
            ELSE IF outcome = "no" /\ ValidId(token_id)
            THEN [st EXCEPT !.no_token_id = token_id]
            ELSE st

RECURSIVE TokenLoop(_, _, _)
TokenLoop(st, tokens, i) ==
    IF i > Len(tokens) \/ st.raised THEN st
    ELSE TokenLoop(TokenLoopBody(st, tokens[i]), tokens, i + 1)

\* "Try tokens array": the rest of extract_token_ids once the paired field
\* gave nothing.  Iterating None or a number raises TypeError; a non-empty
\* string or object yields strings, on which token.get raises.
FromTokens(m) ==
    LET tokens == ParseIfString(GetOr(m, "tokens", PList(<<>>)))
        st0 == [yes_token_id |-> None, no_token_id |-> None, raised |-> FALSE]
    IN CASE IsList(tokens) ->
              LET st == TokenLoop(st0, tokens[2], 1)
              IN IF st.raised THEN Raised ELSE Returned(st.yes_token_id, st.no_token_id)
         [] IsDict(tokens) \/ IsStr(tokens) ->
              IF Truthy(tokens) THEN Raised ELSE Returned(None, None)
         [] OTHER -> Raised

\* The mutant of FromPair: the two candidates are taken in the other order.
FromPairSwapped(m, yes_token_id, no_token_id) ==
    IF ValidId(yes_token_id) /\ ValidId(no_token_id)
    THEN Returned(no_token_id, yes_token_id)
    ELSE FromTokens(m)

\* "Validate token IDs are not garbage": both candidates or neither
FromPair(m, yes_token_id, no_token_id) ==
    IF ValidId(yes_token_id) /\ ValidId(no_token_id)
    THEN Returned(yes_token_id, no_token_id)
    ELSE FromTokens(m)

\* extract_token_ids(market).  len() of a truthy number raises TypeError,
\* [0] of an object KeyError; the first two items of a string are single
\* characters, which fail the length check.
extract_token_ids(m) ==
    LET clob_token_ids == ParseIfString(GetOr(m, "clobTokenIds", PList(<<>>)))
    IN IF ~Truthy(clob_token_ids) THEN FromTokens(m)
       ELSE CASE IsList(clob_token_ids) ->
                   IF Len(clob_token_ids[2]) >= 2
                   THEN FromPair(m, clob_token_ids[2][1], clob_token_ids[2][2])
                   ELSE FromTokens(m)
              [] IsDict(clob_token_ids) ->
                   IF Cardinality(DOMAIN clob_token_ids[2]) >= 2 THEN Raised
                   ELSE FromTokens(m)
              [] IsStr(clob_token_ids) -> FromTokens(m)
              [] OTHER -> Raised

\* the values of one field of a raw market record: the key absent, null, an
\* array, the JSON text of an array, a string that is no JSON, and strings
\* that decode to a number and to an object
FieldSamples(lists) ==
    {<<"absent">>, None, PStr("not json ["), PStr("123"), PStr("{}")}
    \cup lists
    \cup {PStr(JsonText(l, ",")) : l \in lists}

RawMarket(clob, tokens) ==
    PDict((IF clob = <<"absent">> THEN <<>> ELSE [clobTokenIds |-> clob])
          @@ (IF tokens = <<"absent">> THEN <<>> ELSE [tokens |-> tokens])
          @@ [id |-> PStr("0xM1"), closed |-> <<"bool", FALSE>>])

RawMarkets ==
    {RawMarket(c, t) : c \in FieldSamples(IdLists), t \in FieldSamples(TokenLists)}

----------------------------------------------------------------------------
(* filter_markets                                                          *)

MaxMarkets == 2     \* longest list of several markets given to filter_markets

\* int, float and bool compare by value: the value in hundredths
IsNum(v) == v[1] \in {"int", "float", "bool"}
Num(v) ==
    CASE v[1] = "int" -> v[2] * 100
      [] v[1] = "float" -> v[2]
      [] v[1] = "bool" -> IF v[2] THEN 100 ELSE 0
\* v == w
PyEq(v, w) == IF IsNum(v) /\ IsNum(w) THEN Num(v) = Num(w) ELSE v[1] = w[1] /\ v = w

\* float(s) of the strings that are numbers, in hundredths; "nan" is one
FloatTexts == {"0", "0.0", "-0", "150.5", "500", "nan", "0.40", "0.44", "0.60"}
FloatOfText(s) ==
    CASE s \in {"0", "0.0", "-0"} -> [ok |-> TRUE, nan |-> FALSE, value |-> 0]
      [] s = "150.5" -> [ok |-> TRUE, nan |-> FALSE, value |-> 15050]
      [] s = "500" -> [ok |-> TRUE, nan |-> FALSE, value |-> 50000]
      [] s = "nan" -> [ok |-> TRUE, nan |-> TRUE, value |-> 0]
      [] s = "0.40" -> [ok |-> TRUE, nan |-> FALSE, value |-> 40]
      [] s = "0.44" -> [ok |-> TRUE, nan |-> FALSE, value |-> 44]
      [] s = "0.60" -> [ok |-> TRUE, nan |-> FALSE, value |-> 60]
\* float(v): ValueError for a string that is no number, TypeError for None
\* and for a list
PyFloat(v) ==
    CASE IsNum(v) -> [ok |-> TRUE, nan |-> FALSE, value |-> Num(v)]
      [] IsStr(v) -> IF v[2] \in FloatTexts THEN FloatOfText(v[2]) ELSE [ok |-> FALSE]
      [] OTHER -> [ok |-> FALSE]

\* s.replace('Z', '+00:00') of the end timestamps
ReplaceZ(s) ==
    CASE s = "2020-01-01T00:00:00Z" -> "2020-01-01T00:00:00+00:00"
      [] s = "2035-01-01T00:00:00Z" -> "2035-01-01T00:00:00+00:00"
      [] OTHER -> s

\* the instants end timestamps name (2020-01-01, 2023-11-14 22:13:20 and
\* 2035-01-01, as epoch seconds), and the texts without a UTC offset
EndInstants == {1577836800, 1700000000, 2051222400}
NaiveTexts == {"2020-01-01T00:00:00", "2020-01-01"}

\* datetime.fromisoformat(s): the instant whose isoformat() s is, a
\* datetime without time zone, or ValueError
IsoTexts == {<<IsoFormat(t), t>> : t \in EndInstants}
FromIsoFormat(s) ==
    IF \E p \in IsoTexts : p[1] = s
    THEN [ok |-> TRUE, aware |-> TRUE, t |-> (CHOOSE p \in IsoTexts : p[1] = s)[2]]
    ELSE IF s \in NaiveTexts THEN [ok |-> TRUE, aware |-> FALSE]
    ELSE [ok |-> FALSE]

\* "Check 4: Market hasn't ended yet" at time clock: "ended", "pass", or
\* "raise".  .replace of a value that is no string raises AttributeError,
\* which the except clause does not name; ValueError of the parse and
\* TypeError of comparing a datetime without time zone are caught.
EndCheck(m, clock) ==
    LET ending_time == IF Truthy(Get(m, "ending_time"))
                       THEN Get(m, "ending_time")
                       ELSE Get(m, "end_date_iso")
    IN IF ~Truthy(ending_time) THEN "pass"
       ELSE IF ~IsStr(ending_time) THEN "raise"
       ELSE LET end_dt == FromIsoFormat(ReplaceZ(ending_time[2]))
            IN IF ~end_dt.ok \/ ~end_dt.aware THEN "pass"
               ELSE IF end_dt.t < clock THEN "ended" ELSE "pass"

\* "Check 5: Has liquidity" of stage 02, and the float conversion that
\* both stages share: TRUE when the market is rejected
ZeroOrUnparsable(liquidity) ==
    LET liq_val == PyFloat(liquidity)
    IN ~liq_val.ok \/ (~liq_val.nan /\ liq_val.value = 0)

\* The mutant of FilterLoopBody: the end timestamp is checked before the
\* token identifiers.
FilterLoopBodyExpiryFirst(st, m, clock) ==
    IF ~IsDict(m) THEN [st EXCEPT !.raised = TRUE]
    ELSE IF ~IsStr(GetOr(m, "state", PStr(""))) THEN [st EXCEPT !.raised = TRUE]
    ELSE LET state == Lower(GetOr(m, "state", PStr(""))[2])
             closed == GetOr(m, "closed", PBool(FALSE))
             yes_token_id == Get(m, "yes_token_id")
             no_token_id == Get(m, "no_token_id")
             liquidity == Get(m, "liquidity")
             ended == EndCheck(m, clock)
         IN IF state = "closed" \/ Truthy(closed)
            THEN [st EXCEPT !.closed = @ + 1]
            ELSE IF ended = "raise" THEN [st EXCEPT !.raised = TRUE]
            ELSE IF ended = "ended" THEN [st EXCEPT !.closed = @ + 1]
            ELSE IF ~Truthy(yes_token_id) \/ ~Truthy(no_token_id)
            THEN [st EXCEPT !.no_token_ids = @ + 1]
            ELSE IF Len(PyStr(yes_token_id)) < 10 \/ Len(PyStr(no_token_id)) < 10
            THEN [st EXCEPT !.no_token_ids = @ + 1]
            ELSE IF ~Truthy(liquidity) THEN [st EXCEPT !.no_liquidity = @ + 1]
            ELSE IF ZeroOrUnparsable(liquidity) THEN [st EXCEPT !.no_liquidity = @ + 1]
            ELSE [st EXCEPT !.filtered = Append(@, m)]

\* The mutant of FilterLoopBody: a truthy liquidity is not converted.
FilterLoopBodyNoParse(st, m, clock) ==
    IF ~IsDict(m) THEN [st EXCEPT !.raised = TRUE]
    ELSE IF ~IsStr(GetOr(m, "state", PStr(""))) THEN [st EXCEPT !.raised = TRUE]
    ELSE LET state == Lower(GetOr(m, "state", PStr(""))[2])
             closed == GetOr(m, "closed", PBool(FALSE))
             yes_token_id == Get(m, "yes_token_id")
             no_token_id == Get(m, "no_token_id")
             liquidity == Get(m, "liquidity")
             ended == EndCheck(m, clock)
         IN IF state = "closed" \/ Truthy(closed)
            THEN [st EXCEPT !.closed = @ + 1]
            ELSE IF ~Truthy(yes_token_id) \/ ~Truthy(no_token_id)
            THEN [st EXCEPT !.no_token_ids = @ + 1]
            ELSE IF Len(PyStr(yes_token_id)) < 10 \/ Len(PyStr(no_token_id)) < 10
            THEN [st EXCEPT !.no_token_ids = @ + 1]
            ELSE IF ended = "raise" THEN [st EXCEPT !.raised = TRUE]
            ELSE IF ended = "ended" THEN [st EXCEPT !.closed = @ + 1]
            ELSE IF ~Truthy(liquidity) THEN [st EXCEPT !.no_liquidity = @ + 1]
            ELSE [st EXCEPT !.filtered = Append(@, m)]

\* The mutant of FilterLoopBody: an admitted market is marked as handled
\* through its closed flag.
FilterLoopBodyMarking(st, m, clock) ==
    IF ~IsDict(m) THEN [st EXCEPT !.raised = TRUE]
    ELSE IF ~IsStr(GetOr(m, "state", PStr(""))) THEN [st EXCEPT !.raised = TRUE]
    ELSE LET state == Lower(GetOr(m, "state", PStr(""))[2])
             closed == GetOr(m, "closed", PBool(FALSE))
             yes_token_id == Get(m, "yes_token_id")
             no_token_id == Get(m, "no_token_id")
             liquidity == Get(m, "liquidity")
             ended == EndCheck(m, clock)
         IN IF state = "closed" \/ Truthy(closed)
            THEN [st EXCEPT !.closed = @ + 1]
            ELSE IF ~Truthy(yes_token_id) \/ ~Truthy(no_token_id)
            THEN [st EXCEPT !.no_token_ids = @ + 1]
            ELSE IF Len(PyStr(yes_token_id)) < 10 \/ Len(PyStr(no_token_id)) < 10
            THEN [st EXCEPT !.no_token_ids = @ + 1]
            ELSE IF ended = "raise" THEN [st EXCEPT !.raised = TRUE]
            ELSE IF ended = "ended" THEN [st EXCEPT !.closed = @ + 1]
            ELSE IF ~Truthy(liquidity) THEN [st EXCEPT !.no_liquidity = @ + 1]
            ELSE IF ZeroOrUnparsable(liquidity) THEN [st EXCEPT !.no_liquidity = @ + 1]
            ELSE [st EXCEPT !.filtered = Append(@, PDict(("closed" :> PBool(TRUE)) @@ m[2]))]

\* The mutant of FilterLoopBody: no `continue` after an ended market is
\* counted as closed.
FilterLoopBodyNoContinue(st, m, clock) ==
    IF ~IsDict(m) THEN [st EXCEPT !.raised = TRUE]
    ELSE IF ~IsStr(GetOr(m, "state", PStr(""))) THEN [st EXCEPT !.raised = TRUE]
    ELSE LET state == Lower(GetOr(m, "state", PStr(""))[2])
             closed == GetOr(m, "closed", PBool(FALSE))
             yes_token_id == Get(m, "yes_token_id")
             no_token_id == Get(m, "no_token_id")
             liquidity == Get(m, "liquidity")
             ended == EndCheck(m, clock)
             counted == IF ended = "ended" THEN [st EXCEPT !.closed = @ + 1] ELSE st
         IN IF state = "closed" \/ Truthy(closed)
            THEN [st EXCEPT !.closed = @ + 1]
            ELSE IF ~Truthy(yes_token_id) \/ ~Truthy(no_token_id)
            THEN [st EXCEPT !.no_token_ids = @ + 1]
            ELSE IF Len(PyStr(yes_token_id)) < 10 \/ Len(PyStr(no_token_id)) < 10
            THEN [st EXCEPT !.no_token_ids = @ + 1]
            ELSE IF ended = "raise" THEN [st EXCEPT !.raised = TRUE]
            ELSE IF ~Truthy(liquidity) THEN [counted EXCEPT !.no_liquidity = @ + 1]
            ELSE IF ZeroOrUnparsable(liquidity)
            THEN [counted EXCEPT !.no_liquidity = @ + 1]
            ELSE [counted EXCEPT !.filtered = Append(@, m)]

\* One iteration of `for market in markets` of stage 02 at time clock.
\* market.get on a value that is no mapping and .lower() on a state that
\* is no string raise AttributeError.
FilterLoopBody(st, m, clock) ==
    IF ~IsDict(m) THEN [st EXCEPT !.raised = TRUE]
    ELSE IF ~IsStr(GetOr(m, "state", PStr(""))) THEN [st EXCEPT !.raised = TRUE]
    ELSE LET state == Lower(GetOr(m, "state", PStr(""))[2])
             closed == GetOr(m, "closed", PBool(FALSE))
             yes_token_id == Get(m, "yes_token_id")
             no_token_id == Get(m, "no_token_id")
             liquidity == Get(m, "liquidity")
             ended == EndCheck(m, clock)
         IN IF state = "closed" \/ Truthy(closed)
            THEN [st EXCEPT !.closed = @ + 1]
            ELSE IF ~Truthy(yes_token_id) \/ ~Truthy(no_token_id)
            THEN [st EXCEPT !.no_token_ids = @ + 1]
            ELSE IF Len(PyStr(yes_token_id)) < 10 \/ Len(PyStr(no_token_id)) < 10
            THEN [st EXCEPT !.no_token_ids = @ + 1]
            ELSE IF ended = "raise" THEN [st EXCEPT !.raised = TRUE]
            ELSE IF ended = "ended" THEN [st EXCEPT !.closed = @ + 1]
            ELSE IF ~Truthy(liquidity) THEN [st EXCEPT !.no_liquidity = @ + 1]
            ELSE IF ZeroOrUnparsable(liquidity) THEN [st EXCEPT !.no_liquidity = @ + 1]
            ELSE [st EXCEPT !.filtered = Append(@, m)]

\* One iteration of `for market in markets` of stage 03, which reads no
\* clock: no length check and no end timestamp check.
FilterLoopBodyHistorical(st, m, clock) ==
    IF ~IsDict(m) THEN [st EXCEPT !.raised = TRUE]
    ELSE IF ~IsStr(GetOr(m, "state", PStr(""))) THEN [st EXCEPT !.raised = TRUE]
    ELSE LET state == Lower(GetOr(m, "state", PStr(""))[2])
             closed == GetOr(m, "closed", PBool(FALSE))
             yes_token_id == Get(m, "yes_token_id")
             no_token_id == Get(m, "no_token_id")
             liquidity == Get(m, "liquidity")
         IN IF state = "closed" \/ Truthy(closed)
            THEN [st EXCEPT !.closed = @ + 1]
            ELSE IF \/ ~Truthy(yes_token_id) \/ ~Truthy(no_token_id)
               \/ PyEq(yes_token_id, PStr("")) \/ PyEq(no_token_id, PStr(""))
            THEN [st EXCEPT !.no_token_ids = @ + 1]
            ELSE IF \/ IsNone(liquidity) \/ PyEq(liquidity, PInt(0))
               \/ PyEq(liquidity, PStr("0")) \/ PyEq(liquidity, PStr(""))
            THEN [st EXCEPT !.no_liquidity = @ + 1]
            ELSE IF ZeroOrUnparsable(liquidity) THEN [st EXCEPT !.no_liquidity = @ + 1]
            ELSE [st EXCEPT !.filtered = Append(@, m)]

FilterStart ==
    [filtered |-> <<>>, closed |-> 0, no_token_ids |-> 0, no_liquidity |-> 0,
     raised |-> FALSE]
\* return filtered, skip_counts
FilterResult(st) ==
    IF st.raised THEN [state |-> "raised"]
    ELSE [state |-> "returned", filtered |-> st.filtered,
          skip_counts |-> [closed |-> st.closed, no_token_ids |-> st.no_token_ids,
                           no_liquidity |-> st.no_liquidity]]

RECURSIVE FilterLoop(_, _, _, _)
FilterLoop(st, ms, i, clock) ==
    IF i > Len(ms) \/ st.raised THEN st
    ELSE FilterLoop(FilterLoopBody(st, ms[i], clock), ms, i + 1, clock)

\* filter_markets(markets) of 02_collect_live_prices.py, run at time clock
filter_markets(ms, clock) == FilterResult(FilterLoop(FilterStart, ms, 1, clock))

RECURSIVE FilterLoopHistorical(_, _, _, _)
FilterLoopHistorical(st, ms, i, clock) ==
    IF i > Len(ms) \/ st.raised THEN st
    ELSE FilterLoopHistorical(FilterLoopBodyHistorical(st, ms[i], clock), ms, i + 1, clock)

\* filter_markets(markets) of 03_collect_historical_prices.py
filter_markets_historical(ms, clock) ==
    FilterResult(FilterLoopHistorical(FilterStart, ms, 1, clock))

\* the market records of the snapshot stage 01 writes, field by field; a
\* field that is Absent is left out of the record
Absent == <<"absent">>
Field(k, v) == IF v = Absent THEN <<>> ELSE (k :> v)
FilterRec(market_id, state, closed, ids, ends, liquidity) ==
    PDict(Field("state", state) @@ Field("closed", closed)
          @@ Field("yes_token_id", ids[1]) @@ Field("no_token_id", ids[2])
          @@ Field("ending_time", ends[1]) @@ Field("end_date_iso", ends[2])
          @@ Field("liquidity", liquidity)
          @@ [market_id |-> market_id, question |-> PStr("Q")])

StateSamples == {Absent, PStr("active"), PStr("Closed"), None}
ClosedSamples == {Absent, PBool(FALSE), PBool(TRUE)}
\* identifiers of 12, 11, 10, 9 and 0 characters, null and a missing key
IdPairSamples ==
    {<<IdA, IdB>>, <<Id10, IdB>>, <<IdA, PStr("123456789")>>, <<PInt(-1234567890), IdB>>,
     <<None, IdB>>, <<IdA, Absent>>, <<PStr(""), IdB>>}
\* (ending_time, end_date_iso)
EndSamples ==
    {<<Absent, Absent>>, <<None, None>>, <<PStr(""), Absent>>,
     <<PStr("2020-01-01T00:00:00Z"), Absent>>,
     <<PStr("2035-01-01T00:00:00Z"), Absent>>,
     <<PStr("2020-01-01T00:00:00+00:00"), Absent>>,
     <<PStr("2023-11-14T22:13:20+00:00"), Absent>>,
     <<None, PStr("2020-01-01T00:00:00Z")>>,
     <<PStr("2020-01-01T00:00:00"), Absent>>,
     <<PStr("soon"), Absent>>,
     <<PInt(1577836800), Absent>>}
LiquiditySamples ==
    {Absent, None, PStr(""), PInt(0), PFloat(0), PStr("0"), PStr("0.0"), PStr("abc"),
     PStr("150.5"), PInt(500), PStr("nan"), PList(<<PInt(1)>>), PBool(TRUE)}

\* markets for the longer lists: two that are admitted, one rejected for
\* each reason, and two on which the loop raises
Admissible(market_id) ==
    FilterRec(market_id, PStr("active"), PBool(FALSE), <<IdA, IdB>>,
              <<PStr("2035-01-01T00:00:00Z"), Absent>>, PStr("150.5"))
ListSamples ==
    {Admissible(M1), Admissible(M2),
     FilterRec(M1, PStr("closed"), PBool(TRUE), <<IdA, IdB>>, <<Absent, Absent>>, PStr("500")),
     FilterRec(M1, PStr("active"), PBool(FALSE), <<PStr("["), IdB>>,
               <<PStr("2020-01-01T00:00:00Z"), Absent>>, PStr("500")),
     FilterRec(M2, PStr("active"), PBool(FALSE), <<IdA, IdB>>,
               <<PStr("2023-11-14T22:13:20+00:00"), Absent>>, None),
     FilterRec(M2, PStr("active"), PBool(FALSE), <<IdA, IdB>>,
               <<PStr("2020-01-01T00:00:00Z"), Absent>>, PStr("500")),
     FilterRec(M2, PStr("active"), PBool(FALSE), <<IdA, IdB>>,
               <<PInt(1577836800), Absent>>, PStr("500")),
     NotADict}
MarketLists == SeqsUpTo(ListSamples, MaxMarkets)

\* datetime.now(timezone.utc) of a run: 2023-11-14 22:13:20 and 2036-07-18
Clocks == {1700000000, 2100000000}

\* the calls of filter_markets: stage 02 at either time, and stage 03,
\* which reads no clock
FilterCalls ==
    {<<"live", c>> : c \in Clocks} \cup {<<"historical", 1700000000>>}

----------------------------------------------------------------------------
(* parse_orderbook                                                         *)

MaxEntries == 2     \* longest bids or asks list

\* max(values) and min(values) of a non-empty list of floats
MaxOf(values) == CHOOSE x \in {values[i] : i \in 1..Len(values)} :
                    \A i \in 1..Len(values) : values[i] <= x
MinOf(values) == CHOOSE x \in {values[i] : i \in 1..Len(values)} :
                    \A i \in 1..Len(values) : x <= values[i]

\* [float(e.get('price')) for e in entries if e.get('price') is not None]
\* from entry i on: the list, or the exception that ends it.  e.get on an
\* entry that is no mapping raises AttributeError; float() raises
\* ValueError or TypeError.
RECURSIVE ValidPrices(_, _, _)
ValidPrices(entries, i, acc) ==
    IF i > Len(entries) THEN [status |-> "ok", values |-> acc]
    ELSE IF ~IsDict(entries[i]) THEN [status |-> "AttributeError"]
    ELSE IF IsNone(Get(entries[i], "price")) THEN ValidPrices(entries, i + 1, acc)
    ELSE LET price == PyFloat(Get(entries[i], "price"))
         IN IF ~price.ok THEN [status |-> "ValueError"]
            ELSE ValidPrices(entries, i + 1, Append(acc, price.value))

\* "Get best bid" / "Get best ask": the try block of one side.  The except
\* clause catches ValueError and TypeError of the whole comprehension (a
\* side that is a number cannot be iterated: TypeError); AttributeError is
\* not caught (iterating a string or a mapping yields strings).
BestOfSide(side, is_bid) ==
    IF ~Truthy(side) THEN [raised |-> FALSE, best |-> None]
    ELSE IF ~IsList(side)
    THEN IF IsNum(side) THEN [raised |-> FALSE, best |-> None]
         ELSE [raised |-> TRUE]
    ELSE LET valid == ValidPrices(side[2], 1, <<>>)
         IN IF valid.status = "AttributeError" THEN [raised |-> TRUE]
            ELSE IF valid.status = "ValueError" THEN [raised |-> FALSE, best |-> None]
            ELSE IF valid.values = <<>> THEN [raised |-> FALSE, best |-> None]
            ELSE [raised |-> FALSE,
                  best |-> PFloat(IF is_bid THEN MaxOf(valid.values)
                                  ELSE MinOf(valid.values))]

BookResult(best_bid, best_ask, mid_price, spread) ==
    [state |-> "returned", best_bid |-> best_bid, best_ask |-> best_ask,
     mid_price |-> mid_price, spread |-> spread]

\* The mutant of MidAndSpread: a missing side counts as zero.
MidAndSpreadDefaultZero(best_bid, best_ask) ==
    LET b == IF IsNone(best_bid) THEN 0 ELSE best_bid[2]
        a == IF IsNone(best_ask) THEN 0 ELSE best_ask[2]
    IN IF IsNone(best_bid) /\ IsNone(best_ask)
       THEN BookResult(best_bid, best_ask, None, None)
       ELSE BookResult(best_bid, best_ask, PFloat((b + a) \div 2), PFloat(a - b))

\* "Calculate mid price and spread".  Prices are whole hundredths and the
\* sample prices even, so the half is exact.
MidAndSpread(best_bid, best_ask) ==
    IF ~IsNone(best_bid) /\ ~IsNone(best_ask)
    THEN BookResult(best_bid, best_ask,
                    PFloat((best_bid[2] + best_ask[2]) \div 2),
                    PFloat(best_ask[2] - best_bid[2]))
    ELSE BookResult(best_bid, best_ask, None, None)

\* parse_orderbook(orderbook).  orderbook.get on a truthy value that is no
\* mapping raises AttributeError.
parse_orderbook(ob) ==
    IF ~Truthy(ob) THEN BookResult(None, None, None, None)
    ELSE IF ~IsDict(ob) THEN [state |-> "raised"]
    ELSE LET bids == BestOfSide(GetOr(ob, "bids", PList(<<>>)), TRUE)
             asks == BestOfSide(GetOr(ob, "asks", PList(<<>>)), FALSE)
         IN IF bids.raised THEN [state |-> "raised"]
            ELSE IF asks.raised THEN [state |-> "raised"]
            ELSE MidAndSpread(bids.best, asks.best)

\* entries of a book side: prices as strings and as a number, a null
\* price, no price key, a price that is no number, and an entry that is no
\* mapping
Entry(price) == PDict([price |-> price, size |-> PStr("100")])
EntrySamples ==
    {Entry(PStr("0.40")), Entry(PStr("0.44")), Entry(PFloat(60)), Entry(None),
     PDict([size |-> PStr("100")]), Entry(PStr("abc")), PStr("x")}
Sides ==
    {Absent, None, PInt(5)} \cup {PList(es) : es \in SeqsUpTo(EntrySamples, MaxEntries)}
Book(bids, asks) == PDict(Field("bids", bids) @@ Field("asks", asks))

----------------------------------------------------------------------------
(* The transport client, scripts/api_client.py.  Time is counted in ticks  *)
(* of half a second.  Statements take no time: time passes while the       *)
(* client sleeps, while a request is out, and between the calls of the     *)
(* client's caller.                                                        *)

MaxAttempts == 3    \* stop_after_attempt(3)
BackoffWait == 4    \* wait_exponential(multiplier=1, min=2, max=10): 2 s, twice
StartTime == 10     \* time.time() when the client is constructed
MaxElapsed == 11    \* the behaviours end this long after StartTime
MaxOversleep == 1   \* time.sleep(d) sleeps d or longer, by at most this much
MaxLatency == 1     \* the time a request is out
MaxRequests == 4    \* outbound requests in a behaviour
\* PolymarketClient(rate_limit_delay=...): shorter and longer than the backoff
RateLimitDelays == {1, 5}

\* What an attempt meets: a 2xx response with a JSON body, or an exception:
\* Timeout, ConnectionError, HTTPError of raise_for_status() for a 4xx or a
\* 5xx response, or the ValueError of response.json().
Failures == {"timeout", "connection", "client_error", "server_error", "bad_json"}
Ok(body) == [kind |-> "ok", body |-> body]
Failure(kind) == [kind |-> kind]

\* retry_if_exception_type((RequestException, Timeout)): Timeout,
\* ConnectionError and HTTPError are RequestExceptions; the error of
\* response.json() is one only where requests raises its own JSONDecodeError.
Retried(out, jsonIsRequestException) ==
    CASE out.kind \in {"timeout", "connection", "client_error", "server_error"} -> TRUE
      [] out.kind = "bad_json" -> jsonIsRequestException
      [] OTHER -> FALSE

\* The mutant of RateLimit: last_request_time is taken before the sleep.
RateLimitStampBeforeSleep(w, last, delay, over) ==
    LET elapsed == w - last
    IN [wall |-> IF elapsed < delay THEN w + (delay - elapsed) + over ELSE w,
        last_request_time |-> w]

\* _rate_limit(): time.sleep sleeps the time asked for, or `over` longer
RateLimit(w, last, delay, over) ==
    LET elapsed == w - last
        woke == IF elapsed < delay THEN w + (delay - elapsed) + over ELSE w
    IN [wall |-> woke, last_request_time |-> woke]

Methods == {"get_markets", "get_orderbook", "get_prices_history"}

\* the try branch of get_markets: a list, a mapping with a 'data' field,
\* or `data if data else []`
MarketsPage(data) ==
    IF IsList(data) THEN data
    ELSE IF IsDict(data) /\ "data" \in DOMAIN data[2] THEN data[2]["data"]
    ELSE IF Truthy(data) THEN data ELSE PList(<<>>)

\* what a public method returns for the body _make_request returned
OnSuccess(method, body) == IF method = "get_markets" THEN MarketsPage(body) ELSE body

\* `except Exception` of the public methods: return [] / return None
OnError(method) == IF method = "get_markets" THEN PList(<<>>) ELSE None

\* response bodies of the two APIs
Bodies(method) ==
    IF method = "get_markets"
    THEN {PList(<<PDict([id |-> M1])>>), PList(<<>>),
          PDict([data |-> PList(<<PDict([id |-> M1])>>)]), None}
    ELSE {Book(PList(<<Entry(PStr("0.40"))>>), PList(<<Entry(PStr("0.44"))>>)), None}

----------------------------------------------------------------------------
(* fetch_all_markets of scripts/01_discover_markets.py                     *)

PAGE_SIZE == 2      \* 100 in the source
MaxCatalogue == 5   \* markets the API lists

\* market_data, built from a raw market, the extracted token identifiers
\* and the reading of the clock
market_data(m, yes_token_id, no_token_id, clock) ==
    PDict([question |-> Get(m, "question"),
           market_id |-> IF ~IsNone(Get(m, "id")) THEN Get(m, "id")
                         ELSE Get(m, "conditionId"),
           outcomes |-> ParseIfString(GetOr(m, "outcomes", PList(<<>>))),
           yes_token_id |-> yes_token_id,
           no_token_id |-> no_token_id,
           ending_time |-> IF ~IsNone(Get(m, "end_date_iso")) THEN Get(m, "end_date_iso")
                           ELSE IF ~IsNone(Get(m, "endDate")) THEN Get(m, "endDate")
                           ELSE Get(m, "ending_time"),
           end_date_iso |-> Get(m, "end_date_iso"),
           category |-> GetOr(m, "category", PStr("unknown")),
           tags |-> ParseIfString(GetOr(m, "tags", PList(<<>>))),
           state |-> IF Truthy(GetOr(m, "closed", PBool(FALSE)))
                     THEN PStr("closed") ELSE PStr("active"),
           closed |-> GetOr(m, "closed", PBool(FALSE)),
           volume |-> Get(m, "volume"),
           liquidity |-> Get(m, "liquidity"),
           url |-> PStr("https://polymarket.com/event/"
                           \o PyStr(GetOr(m, "slug", GetOr(m, "id", PStr(""))))),
           data_updated_at |-> PStr(IsoFormat(clock))])

\* The mutant of FetchLoopBody: a market is kept when its closed flag is
\* not the value True.
FetchLoopBodyIsTrue(st, m, only_active, clock) ==
    IF ~IsDict(m) THEN [st EXCEPT !.raised = TRUE]
    ELSE LET ids == extract_token_ids(m)
         IN IF ids.state = "raised" THEN [st EXCEPT !.raised = TRUE]
            ELSE LET rec == market_data(m, ids.yes_token_id, ids.no_token_id, clock)
                 IN IF only_active /\ GetOr(m, "closed", PBool(FALSE)) = PBool(TRUE)
                    THEN st
                    ELSE [st EXCEPT !.all_markets = Append(@, rec)]

\* One iteration of `for market in markets_page`.  market.get on a value
\* that is no mapping raises, and so does extract_token_ids on some markets.
FetchLoopBody(st, m, only_active, clock) ==
    IF ~IsDict(m) THEN [st EXCEPT !.raised = TRUE]
    ELSE LET ids == extract_token_ids(m)
         IN IF ids.state = "raised" THEN [st EXCEPT !.raised = TRUE]
            ELSE LET rec == market_data(m, ids.yes_token_id, ids.no_token_id, clock)
                 IN IF only_active /\ Truthy(GetOr(m, "closed", PBool(FALSE)))
                    THEN st
                    ELSE [st EXCEPT !.all_markets = Append(@, rec)]

RECURSIVE FetchLoop(_, _, _, _, _)
FetchLoop(st, page, i, only_active, clock) ==
    IF i > Len(page) \/ st.raised THEN st
    ELSE FetchLoop(FetchLoopBody(st, page[i], only_active, clock), page, i + 1,
                   only_active, clock)

\* The mutant of LastPage: a page of exactly PAGE_SIZE markets ends the loop.
LastPageOrFull(page) == Len(page[2]) <= PAGE_SIZE

\* `if len(markets_page) < PAGE_SIZE: break`
LastPage(page) == Len(page[2]) < PAGE_SIZE

\* the Gamma API's answer to limit and offset: that part of its listing
Listed(all, limit, start) ==
    PList(SubSeq(all, start + 1, IF start + limit < Len(all) THEN start + limit ELSE Len(all)))

\* raw markets as the Gamma API lists them; the closed flag is absent,
\* false, true or a text
GammaMarket(n, closed) ==
    PDict([id |-> PStr("0x" \o ToString(n)), question |-> PStr("Q" \o ToString(n)),
           outcomes |-> PList(<<PStr("Yes"), PStr("No")>>),
           clobTokenIds |-> PStr(JsonText(PList(<<IdA, IdB>>), ", ")),
           endDate |-> PStr("2035-01-01T00:00:00Z"),
           liquidity |-> PStr("150.5")]
          @@ Field("closed", closed))
ClosedFlags == {Absent, PBool(FALSE), PBool(TRUE), PStr("true")}
\* a listing of n markets
RECURSIVE Catalogues(_)
Catalogues(n) ==
    IF n = 0 THEN {<<>>}
    ELSE {Append(c, GammaMarket(n, closed)) : c \in Catalogues(n - 1), closed \in ClosedFlags}
\* listings that make fetch_all_markets raise: a market that is no mapping,
\* and one whose clobTokenIds is the JSON text of a number
BrokenCatalogues ==
    {<<GammaMarket(1, Absent), NotADict>>,
     <<PDict([id |-> PStr("0x1"), clobTokenIds |-> PStr("123")])>>}

----------------------------------------------------------------------------
(* collect_live_prices of scripts/02_collect_live_prices.py and            *)
(* collect_historical_prices of scripts/03_collect_historical_prices.py    *)

MaxCollect == 2     \* markets in the list given to a collect function

\* question[:60]: a string or a list can be sliced, anything else raises
Sliceable(v) == IsStr(v) \/ IsList(v)

\* The mutant of LiveCollectBody: a market whose order book could not be
\* fetched is left out.
LiveCollectBodySkipsFailed(st, m, yes_orderbook, no_orderbook, clock) ==
    LET market_id == Get(m, "market_id")
        question == GetOr(m, "question", PStr("Unknown"))
        yes_token_id == Get(m, "yes_token_id")
        no_token_id == Get(m, "no_token_id")
        yes_prices == parse_orderbook(yes_orderbook)
        no_prices == parse_orderbook(no_orderbook)
    IN IF ~Sliceable(question) THEN [st EXCEPT !.raised = TRUE]
       ELSE IF ~Truthy(yes_token_id) \/ ~Truthy(no_token_id) THEN st
       ELSE IF IsNone(yes_orderbook) \/ IsNone(no_orderbook)
       THEN [st EXCEPT !.fetches = @ \o <<[token |-> yes_token_id, body |-> yes_orderbook],
                                          [token |-> no_token_id, body |-> no_orderbook]>>]
       ELSE IF yes_prices.state = "raised"
       THEN [st EXCEPT !.raised = TRUE,
                       !.fetches = Append(@, [token |-> yes_token_id, body |-> yes_orderbook])]
       ELSE IF no_prices.state = "raised"
       THEN [st EXCEPT !.raised = TRUE,
                       !.fetches = @ \o <<[token |-> yes_token_id, body |-> yes_orderbook],
                                          [token |-> no_token_id, body |-> no_orderbook]>>]
       ELSE [st EXCEPT
               !.fetches = @ \o <<[token |-> yes_token_id, body |-> yes_orderbook],
                                  [token |-> no_token_id, body |-> no_orderbook]>>,
               !.collected = Append(@,
                   PDict([market_id |-> market_id, question |-> question,
                          yes_token_id |-> yes_token_id, no_token_id |-> no_token_id,
                          timestamp |-> PStr(IsoFormat(clock)),
                          yes_best_bid |-> yes_prices.best_bid,
                          yes_best_ask |-> yes_prices.best_ask,
                          yes_mid_price |-> yes_prices.mid_price,
                          yes_spread |-> yes_prices.spread,
                          no_best_bid |-> no_prices.best_bid,
                          no_best_ask |-> no_prices.best_ask,
                          no_mid_price |-> no_prices.mid_price,
                          no_spread |-> no_prices.spread]))]

\* One iteration of the loop of collect_live_prices: the market, and what
\* get_orderbook returns for its two tokens (None after a failed request).
LiveCollectBody(st, m, yes_orderbook, no_orderbook, clock) ==
    LET market_id == Get(m, "market_id")
        question == GetOr(m, "question", PStr("Unknown"))
        yes_token_id == Get(m, "yes_token_id")
        no_token_id == Get(m, "no_token_id")
        yes_prices == parse_orderbook(yes_orderbook)
        no_prices == parse_orderbook(no_orderbook)
    IN IF ~Sliceable(question) THEN [st EXCEPT !.raised = TRUE]
       ELSE IF ~Truthy(yes_token_id) \/ ~Truthy(no_token_id) THEN st
       ELSE IF yes_prices.state = "raised"
       THEN [st EXCEPT !.raised = TRUE,
                       !.fetches = Append(@, [token |-> yes_token_id, body |-> yes_orderbook])]
       ELSE IF no_prices.state = "raised"
       THEN [st EXCEPT !.raised = TRUE,
                       !.fetches = @ \o <<[token |-> yes_token_id, body |-> yes_orderbook],
                                          [token |-> no_token_id, body |-> no_orderbook]>>]
       ELSE [st EXCEPT
               !.fetches = @ \o <<[token |-> yes_token_id, body |-> yes_orderbook],
                                  [token |-> no_token_id, body |-> no_orderbook]>>,
               !.collected = Append(@,
                   PDict([market_id |-> market_id, question |-> question,
                          yes_token_id |-> yes_token_id, no_token_id |-> no_token_id,
                          timestamp |-> PStr(IsoFormat(clock)),
                          yes_best_bid |-> yes_prices.best_bid,
                          yes_best_ask |-> yes_prices.best_ask,
                          yes_mid_price |-> yes_prices.mid_price,
                          yes_spread |-> yes_prices.spread,
                          no_best_bid |-> no_prices.best_bid,
                          no_best_ask |-> no_prices.best_ask,
                          no_mid_price |-> no_prices.mid_price,
                          no_spread |-> no_prices.spread]))]

\* `if yes_history: market_history['yes_history'] = yes_history`
KeptHistory(history) == IF Truthy(history) THEN history ELSE None

\* One iteration of the loop of collect_historical_prices: the market, and
\* what get_prices_history returns for its two tokens.  .get on a truthy
\* body that is no mapping raises; historical_data[market_id] replaces the
\* record of an earlier market with the same market_id.
HistCollectBody(st, m, yes_history, no_history, clock) ==
    LET market_id == Get(m, "market_id")
        question == GetOr(m, "question", PStr("Unknown"))
        yes_token_id == Get(m, "yes_token_id")
        no_token_id == Get(m, "no_token_id")
        market_history ==
            PDict([market_id |-> market_id, question |-> question,
                   yes_token_id |-> yes_token_id, no_token_id |-> no_token_id,
                   data_collected_at |-> PStr(IsoFormat(clock)),
                   yes_history |-> KeptHistory(yes_history),
                   no_history |-> KeptHistory(no_history)])
    IN IF ~Sliceable(question) THEN [st EXCEPT !.raised = TRUE]
       ELSE IF ~Truthy(yes_token_id) \/ ~Truthy(no_token_id) THEN st
       ELSE IF Truthy(yes_history) /\ ~IsDict(yes_history)
       THEN [st EXCEPT !.raised = TRUE,
                       !.fetches = Append(@, [token |-> yes_token_id, body |-> yes_history])]
       ELSE IF Truthy(no_history) /\ ~IsDict(no_history)
       THEN [st EXCEPT !.raised = TRUE,
                       !.fetches = @ \o <<[token |-> yes_token_id, body |-> yes_history],
                                          [token |-> no_token_id, body |-> no_history]>>]
       ELSE [st EXCEPT
               !.fetches = @ \o <<[token |-> yes_token_id, body |-> yes_history],
                                  [token |-> no_token_id, body |-> no_history]>>,
               !.collected = (market_id :> market_history) @@ @]

\* what the CLOB API's endpoints deliver, or None after a failed request:
\* an order book, and a book with an entry that is no mapping; a price
\* series, an empty mapping, and a body that is no mapping
BookReplies ==
    {None, Book(PList(<<Entry(PStr("0.40"))>>), PList(<<Entry(PStr("0.44"))>>)),
     Book(PList(<<PStr("x")>>), Absent)}
HistoryReplies == {None, History(<<Point(E1, PFloat(40))>>), PDict(<<>>), PList(<<PInt(1)>>)}

\* markets of the snapshot: two that filter_markets admits, one with the
\* market_id of the first and another question, one without a YES token
\* identifier, and one whose question is null
CollectSamples ==
    {Admissible(M1), Admissible(M2),
     PDict(("question" :> PStr("Q again")) @@ Admissible(M1)[2]),
     FilterRec(M2, PStr("active"), PBool(FALSE), <<None, IdB>>, <<Absent, Absent>>,
               PStr("150.5")),
     PDict(("question" :> None) @@ Admissible(M2)[2])}

----------------------------------------------------------------------------
(* main() of stages 02, 03 and 05: the artifacts they read and their exit  *)
(* status                                                                  *)

\* A file: present with the value its JSON text decodes to, or missing,
\* or holding text that is no JSON, or one open() fails on (IOError), or
\* one whose bytes do not decode (UnicodeDecodeError, a ValueError).
FileOk(content) == [status |-> "ok", content |-> content]
BadFiles == {[status |-> st] : st \in {"missing", "unparsable", "unreadable", "undecodable"}}

\* load_markets() of stages 02 and 03: sys.exit(1) when the file is
\* missing and on any exception of open() and json.load()
load_markets(file) ==
    IF file.status = "ok" THEN [exit |-> FALSE, value |-> file.content]
    ELSE [exit |-> TRUE]

\* The mutant of load_json_file: a JSON error is not caught.
LoadJsonFileNoCatch(file) ==
    CASE file.status = "ok" -> [raised |-> FALSE, some |-> TRUE, value |-> file.content]
      [] file.status \in {"missing", "unreadable"} -> [raised |-> FALSE, some |-> FALSE]
      [] OTHER -> [raised |-> TRUE]

\* load_json_file(filepath) of stage 05: None when the file is missing and
\* on JSONDecodeError and IOError; any other exception leaves the function
load_json_file(file) ==
    CASE file.status = "ok" -> [raised |-> FALSE, some |-> TRUE, value |-> file.content]
      [] file.status \in {"missing", "unparsable", "unreadable"} ->
            [raised |-> FALSE, some |-> FALSE]
      [] OTHER -> [raised |-> TRUE]

\* the loop of the stage's collect function, with the replies of the
\* client for the two tokens of each market of the list
RECURSIVE CollectLoop(_, _, _, _, _, _)
CollectLoop(st, stage, ms, i, answers, clock) ==
    IF i > Len(ms) \/ st.raised THEN st
    ELSE CollectLoop(IF stage = "02"
                     THEN LiveCollectBody(st, ms[i], answers[i][1], answers[i][2], clock)
                     ELSE HistCollectBody(st, ms[i], answers[i][1], answers[i][2], clock),
                     stage, ms, i + 1, answers, clock)

\* markets[:args.limit] when --limit is given and positive
Limited(ms, limit) ==
    IF limit > 0 /\ limit < Len(ms) THEN SubSeq(ms, 1, limit) ELSE ms

Nothing == [some |-> FALSE]

\* `if markets_data:` and its like in main() of stage 05
Loaded(data) == data.some /\ data.value # <<>>

\* market snapshots: empty, one and two admissible markets, one that
\* filter_markets rejects, one it raises on, and one the collect function
\* raises on
SnapshotSamples ==
    {<<>>, <<Admissible(M1)>>, <<Admissible(M1), Admissible(M2)>>,
     <<FilterRec(M1, PStr("closed"), PBool(TRUE), <<IdA, IdB>>, <<Absent, Absent>>,
                 PStr("500"))>>,
     <<NotADict>>,
     <<PDict(("question" :> None) @@ Admissible(M2)[2])>>}
\* the three artifacts stage 05 reads
MarketsFiles ==
    BadFiles \cup {FileOk(c) : c \in {<<>>, <<MarketRec(M1, "Will it rain?", "active",
                                                        PFloat(15050))>>, <<NotADict>>}}
LivePricesFiles ==
    BadFiles \cup {FileOk(c) : c \in {<<LiveRec(M1, T1, PFloat(40))>>, <<NotADict>>}}
HistoricalPricesFiles ==
    BadFiles \cup {FileOk(c) : c \in {<< <<M1, MarketHistory(M1, History(<<Point(E1, PFloat(40))>>),
                                                           None)>> >>}}
\* the client's replies for the two tokens of a market: both fetched, the
\* first failed, the first with a body the collect function raises on
StageReplies(stage) ==
    IF stage = "02"
    THEN {<<b, Book(PList(<<Entry(PStr("0.40"))>>), PList(<<Entry(PStr("0.44"))>>))>> :
             b \in BookReplies}
    ELSE {<<h, History(<<Point(E1, PFloat(40))>>)>> :
             h \in {None, History(<<Point(E1, PFloat(40))>>), PList(<<PInt(1)>>)}}
\* the database file: there, missing, or one duckdb.connect raises on
DbStates == {"ok", "missing", "corrupt"}

----------------------------------------------------------------------------
(* The run of stage 05                                                     *)

NoCall == [op |-> "none", arg |-> <<>>, ret |-> None]
Snapshot == [markets |-> markets, live_prices |-> live_prices,
             price_history |-> price_history]
NoSnapshot == [markets |-> EmptyBag, live_prices |-> EmptyBag,
               price_history |-> EmptyBag]

InitIngest ==
    /\ markets = EmptyBag
    /\ live_prices = EmptyBag
    /\ price_history = EmptyBag
    /\ seq = 1
    /\ now = 1
    /\ pc = "idle"
    /\ call = NoCall
    /\ pre = NoSnapshot
    /\ latest = <<>>
    /\ calls = 0

InitExtract ==
    /\ market = None
    /\ extracted = [state |-> "none"]

\* no call of filter_markets or parse_orderbook is under way
InitFilter ==
    /\ filterIn = [stage |-> "none"]
    /\ filtered = [state |-> "none"]
    /\ refiltered = [state |-> "none"]

InitBook ==
    /\ orderbook = None
    /\ prices = [state |-> "none"]

\* no call of the transport client is under way
InitClient ==
    /\ rate_limit_delay = 1
    /\ jsonErrorRetried = FALSE
    /\ wall = StartTime
    /\ last_request_time = 0
    /\ clientPc = "idle"
    /\ request = "none"
    /\ attempt = 0
    /\ outcomes = <<>>
    /\ reply = [state |-> "none"]
    /\ sent = <<>>

\* fetch_all_markets is not running
InitFetch ==
    /\ catalogue = <<>>
    /\ active_only = TRUE
    /\ offset = 0
    /\ fetchPc = "idle"
    /\ all_markets = <<>>
    /\ requested = <<>>
    /\ pagesFetched = <<>>

\* no collect function is running
InitCollect ==
    /\ collectIn = [stage |-> "none"]
    /\ collectAt = 1
    /\ collected = <<>>
    /\ fetches = <<>>
    /\ collectPc = "idle"

\* no stage script has run
InitExit ==
    /\ stageRun = [stage |-> "none"]
    /\ stagePc = "idle"
    /\ exitStatus = 0
    /\ stageLog = <<>>
    /\ written = [some |-> FALSE]

InitStages == InitClient /\ InitFetch /\ InitCollect /\ InitExit

Init == InitIngest /\ InitExtract /\ InitFilter /\ InitBook /\ InitStages

\* main(): ingest_live_prices(conn, live_prices_data)
IngestLivePrices ==
    /\ pc = "idle"
    /\ \E data \in LiveBatches :
         LET res == ingest_live_prices(live_prices, seq, data)
         IN /\ live_prices' = res.tbl
            /\ seq' = res.seq
            /\ pc' = IF res.raised THEN "raised" ELSE "returned"
            /\ call' = [op |-> "live", arg |-> data,
                        ret |-> IF res.raised THEN None ELSE res.ret]
    /\ pre' = Snapshot
    /\ UNCHANGED <<markets, price_history, now, latest, market, extracted,
                   filterIn, filtered, refiltered, orderbook, prices>>
    /\ UNCHANGED stageVars

\* main(): ingest_markets(conn, markets_data)
IngestMarkets ==
    /\ pc = "idle"
    /\ \E data \in MarketBatches :
         LET res == ingest_markets(markets, seq, now, data)
         IN /\ markets' = res.tbl
            /\ seq' = res.seq
            /\ pc' = IF res.raised THEN "raised" ELSE "returned"
            /\ call' = [op |-> "markets", arg |-> data,
                        ret |-> IF res.raised THEN None ELSE res.ret]
            /\ latest' = LatestAfter(latest, Processed(data))
    /\ pre' = Snapshot
    /\ UNCHANGED <<live_prices, price_history, now, market, extracted,
                   filterIn, filtered, refiltered, orderbook, prices>>
    /\ UNCHANGED stageVars

\* main(): ingest_historical_prices(conn, historical_data)
IngestHistoricalPrices ==
    /\ pc = "idle"
    /\ \E data \in HistPayloads :
         LET res == ingest_historical_prices(price_history, seq, data)
         IN /\ price_history' = res.tbl
            /\ seq' = res.seq
            /\ pc' = IF res.raised THEN "raised" ELSE "returned"
            /\ call' = [op |-> "history", arg |-> data,
                        ret |-> IF res.raised THEN None ELSE res.ret,
                        skipped |-> res.skipped]
    /\ pre' = Snapshot
    /\ UNCHANGED <<markets, live_prices, now, latest, market, extracted,
                   filterIn, filtered, refiltered, orderbook, prices>>
    /\ UNCHANGED stageVars

\* time passes on the store's clock
Tick ==
    /\ now < MaxClock
    /\ now' = now + 1
    /\ UNCHANGED <<markets, live_prices, price_history, seq, pc, call, pre, latest,
                   market, extracted,
                   filterIn, filtered, refiltered, orderbook, prices>>
    /\ UNCHANGED stageVars

\* main(): the run ends (conn.close() and the summary, or sys.exit(1) in
\* the except branch); the next run of the stage starts from the store.
EndRun ==
    /\ pc \in {"returned", "raised"}
    /\ pc' = "idle"
    /\ call' = NoCall
    /\ pre' = NoSnapshot
    /\ UNCHANGED <<markets, live_prices, price_history, seq, now, latest,
                   market, extracted,
                   filterIn, filtered, refiltered, orderbook, prices>>
    /\ UNCHANGED stageVars

NextLive == (IngestLivePrices \/ EndRun) /\ UNCHANGED calls
SpecLive == Init /\ [][NextLive]_vars

NextMarkets == (IngestMarkets \/ Tick \/ EndRun) /\ UNCHANGED calls
SpecMarkets == Init /\ [][NextMarkets]_vars

NextHistory == (IngestHistoricalPrices \/ EndRun) /\ UNCHANGED calls
SpecHistory == Init /\ [][NextHistory]_vars

\* every ingest operation, for at most MaxCalls calls
Next ==
    \/ /\ calls < MaxCalls
       /\ calls' = calls + 1
       /\ (IngestMarkets \/ IngestLivePrices \/ IngestHistoricalPrices)
    \/ (Tick /\ UNCHANGED calls)
    \/ (EndRun /\ UNCHANGED calls)
Spec == Init /\ [][Next]_vars

\* fetch_all_markets: extract_token_ids(market) of one raw market
ExtractTokenIds ==
    /\ extracted.state = "none"
    /\ extracted' = extract_token_ids(market)
    /\ UNCHANGED <<market, markets, live_prices, price_history, seq, now, pc, call, pre,
                   latest, calls, filterIn, filtered, refiltered, orderbook, prices>>
    /\ UNCHANGED stageVars

InitExtraction ==
    /\ InitIngest /\ InitFilter /\ InitBook /\ InitStages
    /\ market \in RawMarkets
    /\ extracted = [state |-> "none"]
SpecExtract == InitExtraction /\ [][ExtractTokenIds]_vars

RunFilter(stage, ms, clock) ==
    IF stage = "live" THEN filter_markets(ms, clock)
    ELSE filter_markets_historical(ms, clock)

\* main() of stage 02 or 03: markets, skip_counts = filter_markets(all_markets)
FilterMarkets ==
    /\ filterIn.stage # "none"
    /\ filtered.state = "none"
    /\ filtered' = RunFilter(filterIn.stage, filterIn.markets, filterIn.clock)
    /\ UNCHANGED <<ingestVars, extractVars, bookVars, filterIn, refiltered>>
    /\ UNCHANGED stageVars

\* filter_markets applied to the list it admitted, at the same time
FilterAgain ==
    /\ filtered.state = "returned"
    /\ refiltered.state = "none"
    /\ refiltered' = RunFilter(filterIn.stage, filtered.filtered, filterIn.clock)
    /\ UNCHANGED <<ingestVars, extractVars, bookVars, filterIn, filtered>>
    /\ UNCHANGED stageVars

InitFiltering ==
    /\ InitIngest /\ InitExtract /\ InitBook /\ InitStages
    /\ \E fc \in FilterCalls :
          \/ \E ms \in MarketLists :
                filterIn = [stage |-> fc[1], clock |-> fc[2], markets |-> ms]
          \* a list of one market, over every combination of the field samples
          \/ \E st \in StateSamples, c \in ClosedSamples, ids \in IdPairSamples,
                ends \in EndSamples, liq \in LiquiditySamples :
                filterIn = [stage |-> fc[1], clock |-> fc[2],
                            markets |-> <<FilterRec(M1, st, c, ids, ends, liq)>>]
    /\ filtered = [state |-> "none"]
    /\ refiltered = [state |-> "none"]
NextFilter == FilterMarkets \/ FilterAgain
SpecFilter == InitFiltering /\ [][NextFilter]_vars

\* collect_live_prices: parse_orderbook(client.get_orderbook(token_id))
ParseOrderbook ==
    /\ prices.state = "none"
    /\ prices' = parse_orderbook(orderbook)
    /\ UNCHANGED <<ingestVars, extractVars, filterVars, orderbook>>
    /\ UNCHANGED stageVars

\* the order book get_orderbook hands over: None after a failed request,
\* a list, or a mapping with either side
InitBooks ==
    /\ InitIngest /\ InitExtract /\ InitFilter /\ InitStages
    /\ \/ orderbook \in {None, PList(<<Entry(PStr("0.40"))>>)}
       \/ \E bids \in Sides, asks \in Sides : orderbook = Book(bids, asks)
    /\ prices = [state |-> "none"]
SpecBook == InitBooks /\ [][ParseOrderbook]_vars

\* a stage script calls a public method of the client
CallMethod ==
    /\ clientPc \in {"idle", "done"}
    /\ Len(sent) < MaxRequests
    /\ \E method \in Methods : request' = method
    /\ clientPc' = "attempting"
    /\ attempt' = 0
    /\ outcomes' = <<>>
    /\ reply' = [state |-> "none"]
    /\ UNCHANGED <<rate_limit_delay, jsonErrorRetried, wall, last_request_time, sent>>
    /\ UNCHANGED <<ingestVars, extractVars, filterVars, bookVars, fetchVars, collectVars,
                   exitVars>>

\* One attempt of _make_request: _rate_limit(), requests.get, and what
\* becomes of the outcome: the body goes back through the public method, a
\* retried exception with attempts left leads to the backoff, any other
\* exception reaches the public method's `except Exception`.
MakeRequest ==
    /\ clientPc = "attempting"
    /\ Len(sent) < MaxRequests
    /\ \E over \in 0..MaxOversleep, latency \in 0..MaxLatency :
         LET limited == RateLimit(wall, last_request_time, rate_limit_delay, over)
         IN /\ limited.wall + latency <= StartTime + MaxElapsed
            /\ last_request_time' = limited.last_request_time
            /\ sent' = Append(sent, limited.wall)
            /\ wall' = limited.wall + latency
    /\ attempt' = attempt + 1
    /\ \E out \in {Ok(b) : b \in Bodies(request)} \cup {Failure(k) : k \in Failures} :
         /\ outcomes' = Append(outcomes, out.kind)
         /\ IF out.kind = "ok"
            THEN /\ clientPc' = "done"
                 /\ reply' = [state |-> "returned", value |-> OnSuccess(request, out.body)]
            ELSE IF Retried(out, jsonErrorRetried) /\ attempt + 1 < MaxAttempts
            THEN /\ clientPc' = "backoff"
                 /\ reply' = reply
            ELSE /\ clientPc' = "done"
                 /\ reply' = [state |-> "returned", value |-> OnError(request)]
    /\ UNCHANGED <<rate_limit_delay, jsonErrorRetried, request>>
    /\ UNCHANGED <<ingestVars, extractVars, filterVars, bookVars, fetchVars, collectVars,
                   exitVars>>

\* tenacity sleeps before the next attempt
Backoff ==
    /\ clientPc = "backoff"
    /\ \E over \in 0..MaxOversleep :
         /\ wall + BackoffWait + over <= StartTime + MaxElapsed
         /\ wall' = wall + BackoffWait + over
    /\ clientPc' = "attempting"
    /\ UNCHANGED <<rate_limit_delay, jsonErrorRetried, last_request_time, request,
                   attempt, outcomes, reply, sent>>
    /\ UNCHANGED <<ingestVars, extractVars, filterVars, bookVars, fetchVars, collectVars,
                   exitVars>>

\* the caller works on what it was given
CallerWorks ==
    /\ clientPc \in {"idle", "done"}
    /\ wall < StartTime + MaxElapsed
    /\ wall' = wall + 1
    /\ UNCHANGED <<rate_limit_delay, jsonErrorRetried, last_request_time, clientPc,
                   request, attempt, outcomes, reply, sent>>
    /\ UNCHANGED <<ingestVars, extractVars, filterVars, bookVars, fetchVars, collectVars,
                   exitVars>>

\* PolymarketClient(rate_limit_delay=...), with either behaviour of
\* response.json()
InitClientCalls ==
    /\ InitIngest /\ InitExtract /\ InitFilter /\ InitBook /\ InitFetch /\ InitCollect
    /\ InitExit
    /\ rate_limit_delay \in RateLimitDelays
    /\ jsonErrorRetried \in BOOLEAN
    /\ wall = StartTime
    /\ last_request_time = 0
    /\ clientPc = "idle"
    /\ request = "none"
    /\ attempt = 0
    /\ outcomes = <<>>
    /\ reply = [state |-> "none"]
    /\ sent = <<>>
NextClient == CallMethod \/ MakeRequest \/ Backoff \/ CallerWorks
SpecClient == InitClientCalls /\ [][NextClient]_vars

\* One turn of `while True` of fetch_all_markets: the call of get_markets,
\* which returns the page the API lists at this offset, or [] when the
\* request failed, and everything the loop does with the page.
FetchPage ==
    /\ fetchPc = "running"
    /\ \E answered \in BOOLEAN :
       \E markets_page \in {IF answered
                            THEN OnSuccess("get_markets", Listed(catalogue, PAGE_SIZE, offset))
                            ELSE OnError("get_markets")} :
         /\ requested' = Append(requested, offset)
         /\ pagesFetched' = Append(pagesFetched, markets_page)
         /\ IF ~Truthy(markets_page)
            THEN /\ fetchPc' = "returned"
                 /\ UNCHANGED <<all_markets, offset>>
            ELSE \E st \in {FetchLoop([all_markets |-> all_markets, raised |-> FALSE],
                                      markets_page[2], 1, active_only, 1700000000)} :
                 IF st.raised
                 THEN /\ fetchPc' = "raised"
                      /\ UNCHANGED <<all_markets, offset>>
                 ELSE /\ all_markets' = st.all_markets
                      /\ IF LastPage(markets_page)
                         THEN fetchPc' = "returned" /\ offset' = offset
                         ELSE fetchPc' = "running" /\ offset' = offset + PAGE_SIZE
    /\ UNCHANGED <<catalogue, active_only>>
    /\ UNCHANGED <<ingestVars, extractVars, filterVars, bookVars, clientVars, collectVars,
                   exitVars>>

\* main() of stage 01 calls fetch_all_markets(client, active_only=True)
\* against what the API lists at the time; active_only=False is the
\* function's other mode
StartFetch ==
    /\ fetchPc = "idle"
    /\ \/ \E n \in 0..MaxCatalogue : catalogue' \in Catalogues(n)
       \/ catalogue' \in BrokenCatalogues
    /\ active_only' \in BOOLEAN
    /\ offset' = 0
    /\ fetchPc' = "running"
    /\ all_markets' = <<>>
    /\ requested' = <<>>
    /\ pagesFetched' = <<>>
    /\ UNCHANGED <<ingestVars, extractVars, filterVars, bookVars, clientVars, collectVars,
                   exitVars>>

InitFetching ==
    /\ InitIngest /\ InitExtract /\ InitFilter /\ InitBook
    /\ InitClient /\ InitFetch /\ InitCollect /\ InitExit
NextFetch == StartFetch \/ FetchPage
SpecFetch == InitFetching /\ [][NextFetch]_vars
\* the loop is one thread of a script that nothing suspends for good
SpecFetchFair == SpecFetch /\ WF_vars(FetchPage)

\* main() of stage 02 or 03 calls its collect function on the markets
\* filter_markets admitted
StartCollect ==
    /\ collectPc = "idle"
    /\ \E stage \in {"live", "historical"}, ms \in SeqsUpTo(CollectSamples, MaxCollect) :
         /\ collectIn' = [stage |-> stage, markets |-> ms]
         /\ collectPc' = IF ms = <<>> THEN "returned" ELSE "running"
    /\ collectAt' = 1
    /\ collected' = <<>>
    /\ fetches' = <<>>
    /\ UNCHANGED <<ingestVars, extractVars, filterVars, bookVars, clientVars, fetchVars,
                   exitVars>>

\* one iteration of the loop of the collect function: the two calls of
\* the client and what the loop does with what they return
CollectMarket ==
    /\ collectPc = "running"
    /\ \E yes_reply, no_reply \in
            IF collectIn.stage = "live" THEN BookReplies ELSE HistoryReplies :
         LET st0 == [collected |-> collected, fetches |-> fetches, raised |-> FALSE]
             m == collectIn.markets[collectAt]
             st == IF collectIn.stage = "live"
                   THEN LiveCollectBody(st0, m, yes_reply, no_reply, 1700000000)
                   ELSE HistCollectBody(st0, m, yes_reply, no_reply, 1700000000)
         IN /\ collected' = st.collected
            /\ fetches' = st.fetches
            /\ collectPc' = IF st.raised THEN "raised"
                            ELSE IF collectAt = Len(collectIn.markets) THEN "returned"
                            ELSE "running"
            /\ collectAt' = IF st.raised THEN collectAt ELSE collectAt + 1
    /\ UNCHANGED collectIn
    /\ UNCHANGED <<ingestVars, extractVars, filterVars, bookVars, clientVars, fetchVars,
                   exitVars>>

InitCollecting ==
    /\ InitIngest /\ InitExtract /\ InitFilter /\ InitBook
    /\ InitClient /\ InitFetch /\ InitCollect /\ InitExit
NextCollect == StartCollect \/ CollectMarket
SpecCollect == InitCollecting /\ [][NextCollect]_vars

\* the process ends: sys.exit(status), or main() returns (status 0)
ExitWith(status, log, out) ==
    /\ exitStatus' = status
    /\ stageLog' = log
    /\ written' = out
    /\ stagePc' = "exited"

\* main() of stage 02 or 03, from its start to the end of the process:
\* load_markets, filter_markets, the limit, the collect function, the save
\* function.  sys.exit(1) where the code says so and in `except Exception`.
RunCollectStage ==
    /\ stagePc = "idle"
    /\ \E stage \in {"02", "03"}, file \in BadFiles \cup {FileOk(c) : c \in SnapshotSamples},
          limit \in {0, 1}, writable \in BOOLEAN, clock \in Clocks :
         /\ stageRun' = [stage |-> stage, snapshot |-> file, limit |-> limit,
                         writable |-> writable]
         /\ \E snapshot \in {load_markets(file)} :
              IF snapshot.exit THEN ExitWith(1, <<>>, Nothing)
              ELSE \E passed \in {IF stage = "02" THEN filter_markets(snapshot.value, clock)
                                  ELSE filter_markets_historical(snapshot.value, clock)} :
                 IF passed.state = "raised" THEN ExitWith(1, <<"load_markets">>, Nothing)
                 ELSE \E ms \in {Limited(passed.filtered, limit)} :
                    IF ms = <<>>
                    THEN ExitWith(1, <<"load_markets", "filter_markets">>, Nothing)
                    ELSE \E answers \in [1..Len(ms) -> StageReplies(stage)] :
                         \E st \in {CollectLoop([collected |-> <<>>, fetches |-> <<>>,
                                                 raised |-> FALSE],
                                                stage, ms, 1, answers, clock)} :
                            IF st.raised
                            THEN ExitWith(1, <<"load_markets", "filter_markets">>, Nothing)
                            ELSE IF st.collected = <<>>
                            THEN ExitWith(0, <<"load_markets", "filter_markets", "collect",
                                               "end">>, Nothing)
                            ELSE IF ~writable
                            THEN ExitWith(1, <<"load_markets", "filter_markets", "collect">>,
                                          Nothing)
                            ELSE ExitWith(0, <<"load_markets", "filter_markets", "collect",
                                               "save", "end">>,
                                          [some |-> TRUE, value |-> st.collected])
    /\ UNCHANGED <<ingestVars, extractVars, filterVars, bookVars, clientVars, fetchVars,
                   collectVars>>

\* the tables and the identifier sequence as stage 05 leaves them
Stored(m, l, h, sq) ==
    /\ markets' = m
    /\ live_prices' = l
    /\ price_history' = h
    /\ seq' = sq

\* main() of stage 05, from its start to the end of the process: the
\* database file, the three artifacts, and the three ingest functions on
\* the artifacts that were loaded and are not empty
RunIngestStage ==
    /\ stagePc = "idle"
    /\ \E db \in DbStates, fm \in MarketsFiles, fl \in LivePricesFiles,
          fh \in HistoricalPricesFiles :
         /\ stageRun' = [stage |-> "05", db |-> db,
                         files |-> [markets |-> fm, live_prices |-> fl,
                                    historical_prices |-> fh]]
         /\ \E markets_data \in {load_json_file(fm)},
               live_prices_data \in {load_json_file(fl)},
               historical_data \in {load_json_file(fh)} :
              IF db # "ok"
              THEN ExitWith(1, <<>>, written)
                   /\ Stored(markets, live_prices, price_history, seq)
              ELSE IF markets_data.raised \/ live_prices_data.raised \/ historical_data.raised
              THEN ExitWith(1, <<"connect">>, written)
                   /\ Stored(markets, live_prices, price_history, seq)
              ELSE
                \E m \in {IF Loaded(markets_data)
                          THEN ingest_markets(markets, seq, now, markets_data.value)
                          ELSE [tbl |-> markets, seq |-> seq, raised |-> FALSE]} :
                  LET ranM == IF Loaded(markets_data) THEN <<"ingest_markets">> ELSE <<>>
                  IN IF m.raised
                     THEN ExitWith(1, <<"connect", "load">>, written)
                          /\ Stored(m.tbl, live_prices, price_history, m.seq)
                     ELSE
                \E l \in {IF Loaded(live_prices_data)
                          THEN ingest_live_prices(live_prices, m.seq, live_prices_data.value)
                          ELSE [tbl |-> live_prices, seq |-> m.seq, raised |-> FALSE]} :
                  LET ranL == IF Loaded(live_prices_data) THEN <<"ingest_live_prices">>
                              ELSE <<>>
                  IN IF l.raised
                     THEN ExitWith(1, <<"connect", "load">> \o ranM, written)
                          /\ Stored(m.tbl, l.tbl, price_history, l.seq)
                     ELSE
                \E h \in {IF Loaded(historical_data)
                          THEN ingest_historical_prices(price_history, l.seq,
                                                        historical_data.value)
                          ELSE [tbl |-> price_history, seq |-> l.seq, raised |-> FALSE]} :
                  LET ranH == IF Loaded(historical_data) THEN <<"ingest_historical_prices">>
                              ELSE <<>>
                  IN IF h.raised
                     THEN ExitWith(1, <<"connect", "load">> \o ranM \o ranL, written)
                          /\ Stored(m.tbl, l.tbl, h.tbl, h.seq)
                     ELSE ExitWith(0, <<"connect", "load">> \o ranM \o ranL \o ranH
                                         \o <<"end">>, written)
                          /\ Stored(m.tbl, l.tbl, h.tbl, h.seq)
    /\ UNCHANGED <<now, pc, call, pre, latest, calls>>
    /\ UNCHANGED <<extractVars, filterVars, bookVars, clientVars, fetchVars, collectVars>>

InitStageRuns ==
    /\ InitIngest /\ InitExtract /\ InitFilter /\ InitBook
    /\ InitClient /\ InitFetch /\ InitCollect /\ InitExit
NextStage == RunCollectStage \/ RunIngestStage
SpecStage == InitStageRuns /\ [][NextStage]_vars

----------------------------------------------------------------------------
(* Claims about ingest_live_prices                                         *)

\* the (market_id, timestamp) pair of a snapshot that has one
HasPair(price) ==
    IsDict(price) /\ Truthy(Get(price, "market_id")) /\ Truthy(Get(price, "timestamp"))
SamePair(price, row) ==
    row.market_id = Get(price, "market_id") /\ row.timestamp = Get(price, "timestamp")
LiveCallReturned == pc = "returned" /\ call.op = "live"

\* C1: after any sequence of ingest_live_prices calls, live_prices holds at
\* most one row for each (market_id, timestamp) pair.
C1_LiveOneRowPerPair ==
    \A r \in BagToSet(live_prices) :
        SumCopies(live_prices,
                  {x \in BagToSet(live_prices) :
                      x.market_id = r.market_id /\ x.timestamp = r.timestamp}) = 1

\* a returned call whose batch repeats one pair, which is now stored
C1_Witness ==
    /\ LiveCallReturned
    /\ Len(call.arg) = 2
    /\ HasPair(call.arg[1]) /\ HasPair(call.arg[2])
    /\ Get(call.arg[1], "market_id") = Get(call.arg[2], "market_id")
    /\ Get(call.arg[1], "timestamp") = Get(call.arg[2], "timestamp")
    /\ call.arg[1] # call.arg[2]
    /\ \E r \in BagToSet(live_prices) : SamePair(call.arg[1], r)
    /\ pre.live_prices # EmptyBag

\* C2: a call whose batch holds only pairs that are already stored returns 0
\* and leaves every stored row as it was, whatever prices the batch carries.
AllPairsStored ==
    /\ Len(call.arg) > 0
    /\ \A i \in 1..Len(call.arg) :
          HasPair(call.arg[i]) =>
              \E r \in BagToSet(pre.live_prices) : SamePair(call.arg[i], r)
C2_LiveReingestNoop ==
    (LiveCallReturned /\ AllPairsStored) =>
        (call.ret = 0 /\ live_prices = pre.live_prices)

\* such a call, carrying another price than the stored row of its pair
C2_Witness ==
    /\ LiveCallReturned /\ AllPairsStored
    /\ \E i \in 1..Len(call.arg) :
          /\ HasPair(call.arg[i])
          /\ \E r \in BagToSet(pre.live_prices) :
                /\ SamePair(call.arg[i], r)
                /\ r.yes_best_bid # Get(call.arg[i], "yes_best_bid")

----------------------------------------------------------------------------
(* Claims about ingest_markets                                             *)

HasId(rec) == IsDict(rec) /\ Truthy(Get(rec, "market_id"))
MarketsCallReturned == pc = "returned" /\ call.op = "markets"
RowsOf(tbl, market_id) == {r \in BagToSet(tbl) : r.market_id = market_id}

\* C5: markets holds exactly one row for every market_id ever ingested, and
\* the mutable fields of that row are those of the last record processed
\* with that market_id (outcomes and tags in their JSON text).
C5_MarketsLastWriteWins ==
    /\ \A k \in DOMAIN latest : SumCopies(markets, RowsOf(markets, k)) = 1
    /\ \A r \in BagToSet(markets) :
          /\ r.market_id \in DOMAIN latest
          /\ \A c \in MarketSetColumns \ {"outcomes", "tags"} :
                r[c] = Get(latest[r.market_id], c)
          /\ r.outcomes =
                PStr(JsonDumps(GetOr(latest[r.market_id], "outcomes", PList(<<>>))))
          /\ r.tags = PStr(JsonDumps(GetOr(latest[r.market_id], "tags", PList(<<>>))))

\* one batch carried the same market_id twice with different fields, and a
\* market stored by an earlier call is still there
C5_Witness ==
    /\ MarketsCallReturned
    /\ Len(call.arg) = 2
    /\ HasId(call.arg[1]) /\ HasId(call.arg[2])
    /\ Get(call.arg[1], "market_id") = Get(call.arg[2], "market_id")
    /\ Get(call.arg[1], "question") # Get(call.arg[2], "question")
    /\ \E r \in BagToSet(markets) :
          r.market_id = Get(call.arg[2], "market_id")
          /\ r.question = Get(call.arg[2], "question")
    /\ \E r \in BagToSet(pre.markets) : r.market_id # Get(call.arg[1], "market_id")
    /\ RowCount(markets) = 2

\* C6: ingest_markets returns (inserted, updated): inserted is the number
\* of rows it added, updated the number of records that met a row with
\* their market_id, and the two add up to the records that carry a market_id.
UpdatedRecords ==
    {i \in 1..Len(call.arg) :
        /\ HasId(call.arg[i])
        /\ \/ RowsOf(pre.markets, Get(call.arg[i], "market_id")) # {}
           \/ \E j \in 1..(i - 1) :
                 HasId(call.arg[j])
                 /\ Get(call.arg[j], "market_id") = Get(call.arg[i], "market_id")}
C6_MarketsCounts ==
    MarketsCallReturned =>
        /\ call.ret[1] = RowCount(markets) - RowCount(pre.markets)
        /\ call.ret[2] = Cardinality(UpdatedRecords)
        /\ call.ret[1] + call.ret[2] =
               Cardinality({i \in 1..Len(call.arg) : HasId(call.arg[i])})

\* a call that inserted one market, updated it from the same batch, and
\* another that skipped a record without market_id
C6_Witness ==
    /\ MarketsCallReturned
    /\ call.ret = <<1, 1>>
    /\ pre.markets # EmptyBag
    /\ \E i \in 1..Len(call.arg) : RowsOf(pre.markets, Get(call.arg[i], "market_id")) = {}

----------------------------------------------------------------------------
(* Claims about ingest_historical_prices                                   *)

HistoryCallReturned == pc = "returned" /\ call.op = "history"
Triple(r) == <<r.market_id, r.side, r.timestamp>>
TriplesOf(tbl) == {Triple(r) : r \in BagToSet(tbl)}

\* the points of a series value that carry an epoch and a price
CompletePoints(history) ==
    IF IsDict(history) /\ IsList(GetOr(history, "history", PList(<<>>)))
    THEN LET points == GetOr(history, "history", PList(<<>>))[2]
         IN {points[i] : i \in {j \in 1..Len(points) :
                                   /\ IsDict(points[j])
                                   /\ ~IsNone(Get(points[j], "t"))
                                   /\ ~IsNone(Get(points[j], "p"))}}
    ELSE {}
\* (market, side, instant, price) of every such point of a payload
PayloadPoints(data) ==
    UNION {LET market_id == data[i][1]
               market_history == data[i][2]
           IN IF IsDict(market_history)
              THEN {<<market_id, PStr("YES"), PStr(IsoFormat(Get(pt, "t")[2])), Get(pt, "p")>> :
                        pt \in CompletePoints(Get(market_history, "yes_history"))}
                   \cup
                   {<<market_id, PStr("NO"), PStr(IsoFormat(Get(pt, "t")[2])), Get(pt, "p")>> :
                        pt \in CompletePoints(Get(market_history, "no_history"))}
              ELSE {} : i \in 1..Len(data)}
PayloadTriples(data) == {<<q[1], q[2], q[3]>> : q \in PayloadPoints(data)}

\* C3: price_history holds at most one row for each (market_id, side,
\* timestamp) triple, and every point of an ingested payload is stored under
\* its own side: a YES point and a NO point of one market and instant both.
C3_HistoryOneRowPerTriple ==
    /\ \A r \in BagToSet(price_history) :
          SumCopies(price_history,
                    {x \in BagToSet(price_history) : Triple(x) = Triple(r)}) = 1
    /\ HistoryCallReturned => PayloadTriples(call.arg) \subseteq TriplesOf(price_history)

\* one payload carried a YES and a NO point of the same market and instant
C3_Witness ==
    /\ HistoryCallReturned
    /\ \E y, n \in PayloadTriples(call.arg) :
          y[1] = n[1] /\ y[3] = n[3] /\ y[2] = PStr("YES") /\ n[2] = PStr("NO")
    /\ \E y, n \in BagToSet(price_history) :
          /\ y.market_id = n.market_id /\ y.timestamp = n.timestamp
          /\ y.side = PStr("YES") /\ n.side = PStr("NO")
          /\ y.timestamp = PStr("2023-11-14T22:13:20+00:00")

\* C4: a call inserts exactly the points (carrying an epoch and a price)
\* whose triple is not yet stored, one row for each such triple, returns
\* their number, and inserts nothing when every triple is stored already.
NewTriples == PayloadTriples(call.arg) \ TriplesOf(pre.price_history)
InsertedRows == price_history (-) pre.price_history
C4_HistoryInsertsOnlyNew ==
    HistoryCallReturned =>
        /\ pre.price_history \sqsubseteq price_history
        /\ TriplesOf(InsertedRows) = NewTriples
        /\ RowCount(InsertedRows) = Cardinality(NewTriples)
        /\ \A r \in BagToSet(InsertedRows) :
              <<r.market_id, r.side, r.timestamp, r.price>> \in PayloadPoints(call.arg)
        /\ call.ret = Cardinality(NewTriples)
        /\ (NewTriples = {}) => (price_history = pre.price_history /\ call.ret = 0)

\* a payload that overlaps the store: one triple stored, one new
C4_Witness ==
    /\ HistoryCallReturned
    /\ PayloadTriples(call.arg) \cap TriplesOf(pre.price_history) # {}
    /\ NewTriples # {}
    /\ call.ret = 1

----------------------------------------------------------------------------
(* Claims about a failing batch                                            *)

\* C7: when an ingest call fails part-way through its batch, the store
\* holds none of that batch's writes.
C7_BatchAllOrNothing ==
    pc = "raised" =>
        /\ markets = pre.markets
        /\ live_prices = pre.live_prices
        /\ price_history = pre.price_history

----------------------------------------------------------------------------
(* Claims about extract_token_ids                                          *)

\* the value stringifies to more than 10 characters
LongText(v) == Len(PyStr(v)) > 10
\* the arrays that field `key` of the raw market holds, natively or as
\* JSON text: one array, or none
ArrayTexts == {<<PStr(JsonText(l, ",")), l>> : l \in IdLists \cup TokenLists}
ArraysOf(key) ==
    IF key \notin DOMAIN market[2] THEN {}
    ELSE IF IsList(market[2][key]) THEN {market[2][key]}
    ELSE {q[2] : q \in {p \in ArrayTexts : p[1] = market[2][key]}}
\* field `key` is missing, null or a string that is no JSON
FieldUnusable(key) ==
    \/ key \notin DOMAIN market[2]
    \/ market[2][key] \in {None, PStr("not json [")}

\* C8: when the paired-token field (array or JSON text) has at least two
\* entries and the first two stringify to more than 10 characters, the
\* result is (entry 0, entry 1), whatever the tagged-tokens field holds.
C8_PairedFieldFirst ==
    extracted.state # "none" =>
        \A l \in ArraysOf("clobTokenIds") :
            (Len(l[2]) >= 2 /\ LongText(l[2][1]) /\ LongText(l[2][2]))
            => extracted = Returned(l[2][1], l[2][2])

\* the paired field as JSON text, next to a tagged-tokens field that names
\* other identifiers, and next to one that cannot be iterated
C8_Witness ==
    /\ extracted = Returned(IdA, IdB)
    /\ Get(market, "clobTokenIds") = PStr("[\"111111111111\",\"222222222222\"]")
    /\ Get(market, "tokens") = PList(<<Token(PStr("yes"), IdB), Token(None, IdA)>>)

\* the identifier the tagged-tokens array tl gives outcome o: that of the
\* last entry labelled o (in any case) whose identifier is valid
LastValid(tl, o) ==
    LET idx == {i \in 1..Len(tl) :
                   /\ IsDict(tl[i])
                   /\ IsStr(GetOr(tl[i], "outcome", PStr("")))
                   /\ Lower(GetOr(tl[i], "outcome", PStr(""))[2]) = o
                   /\ Truthy(TokenId(tl[i])) /\ LongText(TokenId(tl[i]))}
    IN IF idx = {} THEN None
       ELSE TokenId(tl[CHOOSE i \in idx : \A j \in idx : j <= i])

PairedUnusable ==
    \/ FieldUnusable("clobTokenIds")
    \/ \E l \in ArraysOf("clobTokenIds") :
          Len(l[2]) < 2 \/ ~LongText(l[2][1]) \/ ~LongText(l[2][2])

\* C9: when the paired-token field is absent, undecodable, shorter than 2
\* entries or has one of its first two entries failing the length check,
\* neither paired candidate is used: the result comes from the tagged-tokens
\* field alone, the last valid entry of each outcome winning.
C9_FallBackToTokens ==
    (extracted.state = "returned" /\ PairedUnusable) =>
        /\ \A tl \in ArraysOf("tokens") :
              extracted = Returned(LastValid(tl[2], "yes"), LastValid(tl[2], "no"))
        /\ (FieldUnusable("tokens") /\ "tokens" \notin DOMAIN market[2])
              => extracted = Returned(None, None)
        /\ ("tokens" \in DOMAIN market[2] /\ market[2]["tokens"] = PStr("not json ["))
              => extracted = Returned(None, None)

\* the first paired entry is valid and the second is not; the tokens field
\* names two identifiers for yes, and the later one is returned
C9_Witness ==
    /\ extracted = Returned(IdB, None)
    /\ Get(market, "clobTokenIds") = PList(<<IdA, Id10>>)
    /\ Get(market, "tokens") = PList(<<Token(PStr("Yes"), IdA), Token(PStr("yes"), IdB)>>)

\* C10: every identifier extract_token_ids returns is None or stringifies
\* to more than 10 characters.
C10_ReturnedIdsAreLong ==
    extracted.state = "returned" =>
        /\ IsNone(extracted.yes_token_id) \/ LongText(extracted.yes_token_id)
        /\ IsNone(extracted.no_token_id) \/ LongText(extracted.no_token_id)

\* candidates of exactly 10 characters in both fields come back as None
C10_Witness ==
    /\ extracted = Returned(None, None)
    /\ Get(market, "clobTokenIds") = PList(<<Id10, IdB>>)
    /\ Get(market, "tokens") = PList(<<Token(PStr("YES"), Id10)>>)

\* C11: extract_token_ids never raises for a malformed market record: for
\* every shape of the two fields it returns a pair whose members are each
\* a valid identifier or None.
C11_ExtractNeverRaises ==
    extracted.state # "none" =>
        /\ extracted.state = "returned"
        /\ IsNone(extracted.yes_token_id) \/ ValidId(extracted.yes_token_id)
        /\ IsNone(extracted.no_token_id) \/ ValidId(extracted.no_token_id)

----------------------------------------------------------------------------
(* Claims about filter_markets                                             *)

FilterReturned == filtered.state = "returned"
\* number of the markets of list ms that satisfy P
Count(P(_), ms) == Cardinality({i \in 1..Len(ms) : P(ms[i])})

\* the state field says closed, in any case, or the closed flag is set
ClosedByFlag(m) ==
    \/ Lower(GetOr(m, "state", PStr(""))[2]) = "closed"
    \/ Truthy(GetOr(m, "closed", PBool(FALSE)))
\* the end timestamp of the market: ending_time, else end_date_iso
EndField(m) ==
    IF "ending_time" \in DOMAIN m[2] /\ m[2]["ending_time"] \notin {None, PStr("")}
    THEN m[2]["ending_time"]
    ELSE Get(m, "end_date_iso")
\* the ISO-8601 text names an instant before the time of the call
PassedAt(text, clock) ==
    \/ text \in {"2020-01-01T00:00:00Z", "2020-01-01T00:00:00+00:00"} /\ clock > 1577836800
    \/ text = "2023-11-14T22:13:20+00:00" /\ clock > 1700000000
    \/ text = "2035-01-01T00:00:00Z" /\ clock > 2051222400
HasEnded(m) == IsStr(EndField(m)) /\ PassedAt(EndField(m)[2], filterIn.clock)
\* both identifiers present and non-empty
IdsPresent(m) ==
    /\ Get(m, "yes_token_id") \notin {None, PStr("")}
    /\ Get(m, "no_token_id") \notin {None, PStr("")}
\* the identifier check as the stage performs it: stage 02 rejects string
\* forms shorter than 10 characters, stage 03 has no length check
IdsPass(m) ==
    /\ IdsPresent(m)
    /\ filterIn.stage = "live" =>
          /\ Len(PyStr(Get(m, "yes_token_id"))) >= 10
          /\ Len(PyStr(Get(m, "no_token_id"))) >= 10
\* the liquidity values that are missing, null, empty, zero, "0", not a
\* number, or a number that is zero
BadLiquidityValues ==
    {None, PStr(""), PInt(0), PFloat(0), PBool(FALSE), PStr("0"), PStr("0.0"), PStr("-0"),
     PStr("abc"), PList(<<PInt(1)>>)}
BadLiquidity(m) == Get(m, "liquidity") \in BadLiquidityValues

\* C12 as stated: each rejected market is counted under its first failing
\* check in the order liveness (closed state, closed flag or end timestamp
\* passed), identifiers, liquidity; an ended market is counted under closed
\* whatever its identifiers and liquidity are.
FailsLiveness(m) == ClosedByFlag(m) \/ HasEnded(m)
FailsIdsAfterLiveness(m) == ~FailsLiveness(m) /\ ~IdsPass(m)
FailsLiquidityAfterLiveness(m) == ~FailsLiveness(m) /\ IdsPass(m) /\ BadLiquidity(m)
C12_LivenessFirst ==
    (FilterReturned /\ filterIn.stage = "live") =>
        /\ filtered.skip_counts.closed = Count(FailsLiveness, filterIn.markets)
        /\ filtered.skip_counts.no_token_ids = Count(FailsIdsAfterLiveness, filterIn.markets)
        /\ filtered.skip_counts.no_liquidity
              = Count(FailsLiquidityAfterLiveness, filterIn.markets)

\* C12 (amended): in a call of stage 02's filter_markets that returns,
\* each rejected market is counted under its first failing check in the
\* order closed state or flag (closed), identifiers (no_token_ids), end
\* timestamp passed (closed), liquidity (no_liquidity); an ended market
\* whose identifiers fail is counted under no_token_ids.
CountsClosed(m) == ClosedByFlag(m) \/ (IdsPass(m) /\ HasEnded(m))
CountsNoTokenIds(m) == ~ClosedByFlag(m) /\ ~IdsPass(m)
CountsNoLiquidity(m) ==
    ~ClosedByFlag(m) /\ IdsPass(m) /\ ~HasEnded(m) /\ BadLiquidity(m)
C12_FirstFailingCheck ==
    (FilterReturned /\ filterIn.stage = "live") =>
        /\ filtered.skip_counts.closed = Count(CountsClosed, filterIn.markets)
        /\ filtered.skip_counts.no_token_ids = Count(CountsNoTokenIds, filterIn.markets)
        /\ filtered.skip_counts.no_liquidity = Count(CountsNoLiquidity, filterIn.markets)

\* two ended markets, one with a one-character identifier: one is counted
\* under no_token_ids, the other under closed
C12_Witness ==
    /\ filterIn.stage = "live"
    /\ Len(filterIn.markets) = 2
    /\ \A i \in 1..2 : IsDict(filterIn.markets[i]) /\ HasEnded(filterIn.markets[i])
    /\ Get(filterIn.markets[1], "yes_token_id") = PStr("[")
    /\ FilterReturned
    /\ filtered.skip_counts = [closed |-> 1, no_token_ids |-> 1, no_liquidity |-> 0]

\* C13: filter_markets admits a market only if both token identifiers are
\* present, non-empty and of string length greater than 10.
C13_AdmittedIdsAreLong ==
    FilterReturned =>
        \A i \in 1..Len(filtered.filtered) :
            LET m == filtered.filtered[i]
            IN /\ IdsPresent(m)
               /\ LongText(Get(m, "yes_token_id"))
               /\ LongText(Get(m, "no_token_id"))

\* the markets of ms that satisfy P, in order
Admitted(P(_), ms) == SelectSeq(ms, P)

\* the market passed every check that precedes the liquidity check of its
\* stage
PassedEarlier(m) == ~ClosedByFlag(m) /\ IdsPass(m) /\ (filterIn.stage = "live" => ~HasEnded(m))
RejectedForLiquidity(m) == PassedEarlier(m) /\ BadLiquidity(m)
Liquid(m) == PassedEarlier(m) /\ ~BadLiquidity(m)

\* C14: of the markets that passed the earlier checks, filter_markets
\* counts under no_liquidity exactly those whose liquidity is missing,
\* null, empty, zero, "0", not a number or a number equal to zero, and
\* admits every other one.
C14_LiquidityCheck ==
    FilterReturned =>
        /\ filtered.skip_counts.no_liquidity = Count(RejectedForLiquidity, filterIn.markets)
        /\ filtered.filtered = Admitted(Liquid, filterIn.markets)

\* a liquidity of "0.0" is truthy and parses to zero: rejected by either
\* stage; "nan" parses and is not zero: admitted
C14_Witness ==
    /\ FilterReturned
    /\ Len(filterIn.markets) = 1
    /\ PassedEarlier(filterIn.markets[1])
    /\ \/ /\ Get(filterIn.markets[1], "liquidity") = PStr("0.0")
          /\ filtered.skip_counts.no_liquidity = 1
          /\ filterIn.stage = "historical"
       \/ /\ Get(filterIn.markets[1], "liquidity") = PStr("nan")
          /\ Len(filtered.filtered) = 1
          /\ filterIn.stage = "live"

\* the end timestamp is missing, null, empty, no string, or no ISO-8601
\* instant
EndUnusable(m) ==
    \/ EndField(m) \in {None, PStr("")}
    \/ ~IsStr(EndField(m))
    \/ EndField(m)[2] \in {"soon", "2020-01-01T00:00:00", "2020-01-01"}
\* market.get and .lower() of the first check work on the record
WellFormed(m) == IsDict(m) /\ IsStr(GetOr(m, "state", PStr("")))

\* C15: a market whose end timestamp is missing or unusable is never
\* rejected for having ended and never makes stage 02's filter raise.
C15_EndTimeFailsOpen ==
    (filterIn.stage = "live" /\ filtered.state # "none"
       /\ \A i \in 1..Len(filterIn.markets) : WellFormed(filterIn.markets[i])) =>
        /\ FilterReturned
        /\ (Len(filterIn.markets) = 1 /\ EndUnusable(filterIn.markets[1])
              /\ ~ClosedByFlag(filterIn.markets[1]))
           => filtered.skip_counts.closed = 0

\* C16: filter_markets applied to the list it admitted, at the same time,
\* returns that list with every tally zero.
C16_FilterIdempotent ==
    refiltered.state # "none" =>
        refiltered = [state |-> "returned", filtered |-> filtered.filtered,
                      skip_counts |-> [closed |-> 0, no_token_ids |-> 0,
                                       no_liquidity |-> 0]]

\* the first application rejected a market and admitted one
C16_Witness ==
    /\ refiltered.state = "returned"
    /\ Len(filterIn.markets) = 2
    /\ filtered.skip_counts.closed = 1
    /\ Len(filtered.filtered) = 1
    /\ refiltered.filtered = <<Admissible(M1)>>

----------------------------------------------------------------------------
(* Claims about parse_orderbook                                            *)

BookReturned == prices.state = "returned"

\* C17: mid_price is non-null exactly when spread is non-null exactly when
\* best_bid and best_ask are both non-null; then mid_price is half their
\* sum and spread is best_ask - best_bid, of either sign.
C17_MidAndSpreadIffBoth ==
    BookReturned =>
        /\ ~IsNone(prices.mid_price) <=> ~IsNone(prices.spread)
        /\ ~IsNone(prices.mid_price)
              <=> (~IsNone(prices.best_bid) /\ ~IsNone(prices.best_ask))
        /\ ~IsNone(prices.mid_price) =>
              /\ 2 * prices.mid_price[2] = prices.best_bid[2] + prices.best_ask[2]
              /\ prices.spread[2] = prices.best_ask[2] - prices.best_bid[2]

\* a crossed book: best bid 0.60 above best ask 0.40, spread -0.20
C17_Witness ==
    /\ BookReturned
    /\ prices.best_bid = PFloat(60)
    /\ prices.best_ask = PFloat(40)
    /\ prices.mid_price = PFloat(50)
    /\ prices.spread = PFloat(-20)

\* the prices of a side that are numbers, in hundredths
ParsablePrice(e) == IsDict(e) /\ Get(e, "price") \in {PStr("0.40"), PStr("0.44"), PFloat(60)}
PriceOf(e) ==
    CASE Get(e, "price") = PStr("0.40") -> 40
      [] Get(e, "price") = PStr("0.44") -> 44
      [] Get(e, "price") = PFloat(60) -> 60
Parsable(side) == {PriceOf(side[2][i]) : i \in {j \in 1..Len(side[2]) : ParsablePrice(side[2][j])}}
\* the best price of a side: the highest bid or lowest ask among the prices
\* that are numbers, None when there is none
Best(side, is_bid) ==
    IF ~IsList(side) \/ Parsable(side) = {} THEN None
    ELSE PFloat(CHOOSE x \in Parsable(side) :
                   \A y \in Parsable(side) : IF is_bid THEN y <= x ELSE x <= y)

\* C18: best_bid is the maximum over the bid entries whose price is a
\* number and best_ask the minimum over such ask entries; an entry whose
\* price is missing or no number is left out on its own.
C18_BestOverParsable ==
    (BookReturned /\ IsDict(orderbook)) =>
        /\ prices.best_bid = Best(GetOr(orderbook, "bids", PList(<<>>)), TRUE)
        /\ prices.best_ask = Best(GetOr(orderbook, "asks", PList(<<>>)), FALSE)

\* the side is missing, null or an empty list
NoEntries(key) == GetOr(orderbook, key, PList(<<>>)) \in {None, PList(<<>>)}
\* the side is a non-empty list of price-bearing entries (mappings)
HasEntries(key) ==
    LET side == GetOr(orderbook, key, PList(<<>>))
    IN IsList(side) /\ ~NoEntries(key) /\ \A i \in 1..Len(side[2]) : IsDict(side[2][i])

\* C19: a book that is None, empty or without bids and asks gives four
\* nulls without raising; a book with entries on one side only gives that
\* side's best price and null for the other three fields.
C19_AbsentSides ==
    prices.state # "none" =>
        /\ (IsNone(orderbook) \/ (IsDict(orderbook) /\ NoEntries("bids") /\ NoEntries("asks")))
              => prices = BookResult(None, None, None, None)
        /\ (IsDict(orderbook) /\ HasEntries("bids") /\ NoEntries("asks"))
              => prices = BookResult(Best(orderbook[2]["bids"], TRUE), None, None, None)
        /\ (IsDict(orderbook) /\ NoEntries("bids") /\ HasEntries("asks"))
              => prices = BookResult(None, Best(orderbook[2]["asks"], FALSE), None, None)

----------------------------------------------------------------------------
(* Claims about incomplete history points                                  *)

\* the points of the series under `key` of one market entry
PointsOf(market_history, key) ==
    IF IsDict(market_history) /\ IsDict(Get(market_history, key))
    THEN Get(Get(market_history, key), "history")[2]
    ELSE <<>>
AllPoints(data) ==
    {<<i, key, j>> \in (1..Len(data)) \X {"yes_history", "no_history"} \X (1..MaxPoints + 1) :
        j <= Len(PointsOf(data[i][2], key))}
PointAt(data, q) == PointsOf(data[q[1]][2], q[2])[q[3]]
\* the point lacks its epoch or its price
Incomplete(point) == IsNone(Get(point, "t")) \/ IsNone(Get(point, "p"))
\* missing epochs and prices are the payload's only defects
OnlyIncompletePoints(data) ==
    /\ \A i \in 1..Len(data) : IsNone(data[i][2]) \/ IsDict(data[i][2])
    /\ \A q \in AllPoints(data) : IsDict(PointAt(data, q))

\* C20: a point without epoch or without price is dropped without error,
\* neither inserted nor counted as a duplicate, and every other point of
\* the payload is still inserted or counted as a duplicate.
C20_IncompletePointsDropped ==
    (call.op = "history" /\ OnlyIncompletePoints(call.arg)) =>
        /\ pc = "returned"
        /\ RowCount(InsertedRows) = call.ret
        /\ call.ret + call.skipped
              = Cardinality({q \in AllPoints(call.arg) : ~Incomplete(PointAt(call.arg, q))})

\* a point without epoch in the first market's series, and the point of
\* the market after it inserted
C20_Witness ==
    /\ HistoryCallReturned
    /\ Len(call.arg) = 2
    /\ PointsOf(call.arg[1][2], "yes_history") = <<PDict([p |-> PFloat(55)])>>
    /\ PointsOf(call.arg[2][2], "yes_history") = <<Point(E1, PFloat(55))>>
    /\ call.ret = 1
    /\ call.skipped = 0
    /\ price_history # pre.price_history

----------------------------------------------------------------------------
(* C30: the frame of the ingestion operations                              *)

IngestCallEnded == pc \in {"returned", "raised"}
BatchIds ==
    IF call.op = "markets"
    THEN {Get(call.arg[i], "market_id") : i \in {j \in 1..Len(call.arg) : HasId(call.arg[j])}}
    ELSE {}

\* C30: no ingestion call removes rows or touches another table: the row
\* count of markets, live_prices and price_history never decreases, a call
\* changes only its own table, and ingest_markets leaves the rows of the
\* markets its batch does not name as they were and keeps market_id, id and
\* created_at of the rows it updates.
C30_IngestionFrame ==
    IngestCallEnded =>
        /\ RowCount(markets) >= RowCount(pre.markets)
        /\ RowCount(live_prices) >= RowCount(pre.live_prices)
        /\ RowCount(price_history) >= RowCount(pre.price_history)
        /\ pre.live_prices \sqsubseteq live_prices
        /\ pre.price_history \sqsubseteq price_history
        /\ call.op # "markets" => markets = pre.markets
        /\ call.op # "live" => live_prices = pre.live_prices
        /\ call.op # "history" => price_history = pre.price_history
        /\ \A r \in BagToSet(pre.markets) :
              /\ \E w \in BagToSet(markets) :
                    /\ w.market_id = r.market_id
                    /\ w.id = r.id
                    /\ w.created_at = r.created_at
                    /\ CopiesIn(w, markets) = CopiesIn(r, pre.markets)
              /\ r.market_id \notin BatchIds =>
                    CopiesIn(r, markets) = CopiesIn(r, pre.markets)

\* a later call of ingest_markets rewrote one stored market after the clock
\* had moved on, while another stored market was not in its batch
C30_Witness ==
    /\ MarketsCallReturned
    /\ \E r \in BagToSet(pre.markets) :
          /\ r.market_id \in BatchIds
          /\ ~BagIn(r, markets)
          /\ r.created_at[2] < now
    /\ \E r \in BagToSet(pre.markets) : r.market_id \notin BatchIds

----------------------------------------------------------------------------
(* C27, C28: filter_markets as a partition; the two stages' filters        *)

Buckets == {"admitted", "closed", "no_token_ids", "no_liquidity"}
\* the markets of ms that classification f puts in bucket b, in input order
RECURSIVE InBucket(_, _, _, _)
InBucket(f, b, ms, i) ==
    IF i > Len(ms) THEN <<>>
    ELSE (IF f[i] = b THEN <<ms[i]>> ELSE <<>>) \o InBucket(f, b, ms, i + 1)

\* C27: filter_markets partitions its input: when it returns, every input
\* market is in exactly one of admitted, closed, no_token_ids and
\* no_liquidity, the three tallies and the admitted list count the markets
\* of their bucket (so the four numbers add up to the input), and the
\* admitted list is the admitted input records, unmodified, in input order.
C27_FilterPartitions ==
    FilterReturned =>
        /\ Len(filtered.filtered) + filtered.skip_counts.closed
              + filtered.skip_counts.no_token_ids + filtered.skip_counts.no_liquidity
           = Len(filterIn.markets)
        /\ \E f \in [1..Len(filterIn.markets) -> Buckets] :
              /\ filtered.filtered = InBucket(f, "admitted", filterIn.markets, 1)
              /\ \A b \in Buckets \ {"admitted"} :
                    filtered.skip_counts[b] = Len(InBucket(f, b, filterIn.markets, 1))

\* the live-price stage's filter returned on two markets, rejecting the
\* first as ended and admitting the second; the historical stage's filter
\* returned on two markets, rejecting the second for its liquidity
C27_Witness ==
    /\ FilterReturned
    /\ Len(filterIn.markets) = 2
    /\ \/ /\ filterIn.stage = "live"
          /\ IsDict(filterIn.markets[1]) /\ HasEnded(filterIn.markets[1])
          /\ filtered.skip_counts.closed = 1
          /\ filtered.filtered = <<filterIn.markets[2]>>
       \/ /\ filterIn.stage = "historical"
          /\ filtered.skip_counts.no_liquidity = 1
          /\ filtered.filtered = <<filterIn.markets[1]>>

OtherStage == IF filterIn.stage = "live" THEN "historical" ELSE "live"

\* C28: the filter_markets of stage 02 and the filter_markets of stage 03
\* are the same filter: on every market collection on which both return
\* they return the same admitted list and the same tallies.
C28_SameFilter ==
    FilterReturned =>
        LET other == RunFilter(OtherStage, filterIn.markets, filterIn.clock)
        IN other.state = "returned" => other = filtered

----------------------------------------------------------------------------
(* Claims about the transport client                                       *)

ClientCallEnded == clientPc = "done"
EveryAttemptFailed == \A i \in 1..Len(outcomes) : outcomes[i] # "ok"
\* the caller can tell the reply from what a successful call returns: the
\* call raised, or returned the None the methods document for errors
ReplyIsFailure == reply.state = "raised" \/ (reply.state = "returned" /\ reply.value = None)

\* C22: a transport call is attempted at most 3 times, and when every
\* attempt failed the caller of the client gets a failure, not a result
\* that looks like a normal one.
C22_FailureReachesCaller ==
    /\ attempt <= 3
    /\ (ClientCallEnded /\ EveryAttemptFailed) => ReplyIsFailure

\* C25: between the starts of any two consecutive outbound requests of one
\* client, the repeated attempts of a retried request included, at least
\* rate_limit_delay elapses.
C25_RequestsSpaced ==
    \A i \in 1..(Len(sent) - 1) : sent[i + 1] - sent[i] >= rate_limit_delay

\* a request was retried after a backoff shorter than rate_limit_delay, so
\* that the limiter slept before the second attempt, and the next call came
\* at once
C25_Witness ==
    /\ rate_limit_delay > BackoffWait
    /\ Len(sent) >= 3
    /\ attempt = 1
    /\ sent[2] - sent[1] = rate_limit_delay
    /\ sent[3] - sent[2] = rate_limit_delay

\* C26: the client retries only transient failures: a request answered
\* with a permanent client error is attempted exactly once.
C26_ClientErrorNotRetried ==
    \A i \in 1..Len(outcomes) :
        outcomes[i] = "client_error" => (i = 1 /\ Len(outcomes) = 1 /\ ClientCallEnded)

----------------------------------------------------------------------------
(* Claims about fetch_all_markets                                          *)

FetchReturned == fetchPc = "returned"
\* the markets of the pages fetched, in fetch order
RECURSIVE MarketsOf(_, _)
MarketsOf(pages, i) ==
    IF i > Len(pages) THEN <<>> ELSE pages[i][2] \o MarketsOf(pages, i + 1)
NotClosed(m) == ~Truthy(GetOr(m, "closed", PBool(FALSE)))
IdsOf(ms) == [i \in 1..Len(ms) |-> Get(ms[i], "id")]
MarketIdsOf(recs) == [i \in 1..Len(recs) |-> Get(recs[i], "market_id")]

\* the pages were requested at offsets 0, PAGE_SIZE, 2*PAGE_SIZE, ..., every
\* page but the last one fetched is a full page, and a run that has
\* returned fetched an empty or short page last; with active_only its result
\* is the non-closed markets of the pages fetched, in fetch order
PagedInOrder ==
    /\ Len(requested) = Len(pagesFetched)
    /\ \A i \in 1..Len(requested) : requested[i] = (i - 1) * PAGE_SIZE
    /\ \A i \in 1..(Len(pagesFetched) - 1) : Len(pagesFetched[i][2]) >= PAGE_SIZE
    /\ fetchPc = "running" =>
          \A i \in 1..Len(pagesFetched) : Len(pagesFetched[i][2]) >= PAGE_SIZE
    /\ FetchReturned =>
          /\ Len(pagesFetched[Len(pagesFetched)][2]) < PAGE_SIZE
          /\ active_only =>
                MarketIdsOf(all_markets)
                   = IdsOf(SelectSeq(MarketsOf(pagesFetched, 1), NotClosed))

\* C21: fetch_all_markets requests pages at offsets 0, PAGE_SIZE, ... in
\* that order, stops after the first page that is empty or shorter than
\* PAGE_SIZE and requests none after it; a source that at some point returns
\* such a page makes the loop terminate; with active_only the result is the
\* non-closed markets of the pages fetched, in fetch order.
C21_PaginationTerminates ==
    []PagedInOrder /\ ((fetchPc = "running") ~> (fetchPc \in {"returned", "raised"}))

\* two full pages and a short one were fetched, with a closed market among
\* open ones, and the run returned the open ones
C21_Witness ==
    /\ FetchReturned /\ active_only
    /\ requested = <<0, PAGE_SIZE, 2 * PAGE_SIZE>>
    /\ Len(pagesFetched[3][2]) = 1
    /\ Len(all_markets) = Len(catalogue) - 1
    /\ Len(all_markets) >= 2

\* C29: every record fetch_all_markets produces has state 'closed' exactly
\* when its closed flag is truthy and 'active' otherwise; with active_only no
\* record has a truthy closed flag, and every record passes the closed-state
\* check of filter_markets.
C29_StateFollowsClosedFlag ==
    FetchReturned =>
        \A i \in 1..Len(all_markets) :
            LET rec == all_markets[i]
                flags == PDict([state |-> Get(rec, "state"), closed |-> Get(rec, "closed")])
            IN /\ Get(rec, "state") = PStr("closed") <=> Truthy(Get(rec, "closed"))
               /\ Get(rec, "state") = PStr("active") <=> ~Truthy(Get(rec, "closed"))
               /\ active_only =>
                     /\ ~Truthy(Get(rec, "closed"))
                     /\ filter_markets(<<flags>>, 1700000000).skip_counts.closed = 0
                     /\ filter_markets_historical(<<flags>>, 1700000000).skip_counts.closed = 0

\* a run with active_only over a listing with markets closed by the flag
\* True and by a text, which kept only the open ones
C29_Witness ==
    /\ FetchReturned /\ active_only
    /\ \A i \in 1..Len(catalogue) : IsDict(catalogue[i])
    /\ \E i, j \in 1..Len(catalogue) :
          /\ Get(catalogue[i], "closed") = PBool(TRUE)
          /\ Get(catalogue[j], "closed") = PStr("true")
    /\ Len(requested) = 3
    /\ Len(all_markets) = 2

----------------------------------------------------------------------------
(* Claims about collect_live_prices and collect_historical_prices          *)

CollectReturned == collectPc = "returned"
BothIds(m) == Truthy(Get(m, "yes_token_id")) /\ Truthy(Get(m, "no_token_id"))
NumRecords ==
    IF collectIn.stage = "live" THEN Len(collected) ELSE Cardinality(DOMAIN collected)

\* C23 as stated: whatever fetches failed, the number of records produced
\* equals the number of input markets that have both token identifiers.
C23_OneRecordPerMarket ==
    CollectReturned => NumRecords = Count(BothIds, collectIn.markets)

\* the positions, in the input list, of the markets with both identifiers
HasBothAt(i) == BothIds(collectIn.markets[i])
BothAt == SelectSeq([i \in 1..Len(collectIn.markets) |-> i], HasBothAt)
\* the k-th such market's two fetches are fetches[2k-1] and fetches[2k]
FetchFailed(k, side) == IsNone(fetches[IF side = "yes" THEN 2 * k - 1 ELSE 2 * k].body)
LiveFieldsNull(rec, side) ==
    \A f \in {"_best_bid", "_best_ask", "_mid_price", "_spread"} :
        IsNone(Get(rec, side \o f))
\* the last market with both identifiers that carries market_id
LastWith(market_id) ==
    CHOOSE k \in 1..Len(BothAt) :
        /\ Get(collectIn.markets[BothAt[k]], "market_id") = market_id
        /\ \A j \in (k + 1)..Len(BothAt) :
              Get(collectIn.markets[BothAt[j]], "market_id") # market_id

\* C23 (amended): a failed fetch never stops the loop: in a call that
\* returns, both tokens of every market with both identifiers were fetched,
\* in list order; collect_live_prices produced one record per such market,
\* in list order, and collect_historical_prices one record per distinct
\* market_id of such markets, that of the last market with it; the price
\* fields, or the history, of a side whose fetch failed are null.  A call
\* raises only on a question that cannot be sliced or on a body that was
\* delivered, never on a failed fetch.
C23_FailedFetchIsolated ==
    /\ CollectReturned =>
          /\ Len(fetches) = 2 * Len(BothAt)
          /\ \A k \in 1..Len(BothAt) :
                /\ fetches[2 * k - 1].token = Get(collectIn.markets[BothAt[k]], "yes_token_id")
                /\ fetches[2 * k].token = Get(collectIn.markets[BothAt[k]], "no_token_id")
          /\ collectIn.stage = "live" =>
                /\ Len(collected) = Count(BothIds, collectIn.markets)
                /\ \A k \in 1..Len(BothAt) :
                      /\ Get(collected[k], "market_id")
                            = Get(collectIn.markets[BothAt[k]], "market_id")
                      /\ Get(collected[k], "question")
                            = Get(collectIn.markets[BothAt[k]], "question")
                      /\ \A side \in {"yes", "no"} :
                            FetchFailed(k, side) => LiveFieldsNull(collected[k], side)
          /\ collectIn.stage = "historical" =>
                /\ DOMAIN collected
                      = {Get(collectIn.markets[BothAt[k]], "market_id") : k \in 1..Len(BothAt)}
                /\ \A id \in DOMAIN collected :
                      /\ Get(collected[id], "question")
                            = Get(collectIn.markets[BothAt[LastWith(id)]], "question")
                      /\ \A side \in {"yes", "no"} :
                            FetchFailed(LastWith(id), side)
                               => IsNone(Get(collected[id], side \o "_history"))
    /\ collectPc = "raised" =>
          \/ ~Sliceable(GetOr(collectIn.markets[collectAt], "question", PStr("Unknown")))
          \/ (fetches # <<>> /\ ~IsNone(fetches[Len(fetches)].body))

\* a call of each collect function returned although the first market's
\* YES fetch and the second market's NO fetch had failed; the historical
\* one was given the same market_id twice
C23_Witness ==
    /\ CollectReturned
    /\ Len(fetches) = 4
    /\ FetchFailed(1, "yes") /\ ~FetchFailed(1, "no")
    /\ ~FetchFailed(2, "yes") /\ FetchFailed(2, "no")
    /\ \/ collectIn.stage = "live" /\ Len(collected) = 2
                /\ ~IsNone(Get(collected[1], "no_mid_price"))
       \/ collectIn.stage = "historical" /\ Cardinality(DOMAIN collected) = 1
                /\ ~IsNone(Get(collected[M1], "yes_history"))

----------------------------------------------------------------------------
(* Claims about the exit status of the stages                              *)

StageExited == stagePc = "exited"
CompletedNormally == stageLog # <<>> /\ stageLog[Len(stageLog)] = "end"
\* the artifacts of earlier stages the run consumed that were missing or
\* unreadable
UnusableInputs ==
    IF stageRun.stage = "05"
    THEN {f \in {"markets", "live_prices", "historical_prices"} :
             stageRun.files[f].status # "ok"}
         \cup (IF stageRun.db # "ok" THEN {"db"} ELSE {})
    ELSE IF stageRun.snapshot.status # "ok" THEN {"markets"} ELSE {}

\* C24 as stated: a stage that consumes an artifact of an earlier stage
\* exits with a non-zero status when that input is missing or unreadable,
\* and a stage that completes normally exits with status zero.
C24_MissingInputIsFatal ==
    StageExited =>
        /\ UnusableInputs # {} => exitStatus # 0
        /\ CompletedNormally => exitStatus = 0

\* the artifacts of stage 05 that load_json_file gives up on without raising
Skipped05 ==
    {f \in {"markets", "live_prices", "historical_prices"} :
        stageRun.files[f].status \in {"missing", "unparsable", "unreadable"}}

\* C24 (amended): stages 02 and 03 exit with a non-zero status when the
\* market snapshot is missing or unreadable, and stage 05 when the database
\* file is missing or cannot be opened or an artifact's bytes do not decode;
\* stage 05 skips an artifact that is missing, is no JSON or cannot be
\* opened, ingests the others, and exits with zero if they ingest;
\* a stage that completes normally exits with status zero, and only such
\* a stage does.
C24_ExitStatus ==
    StageExited =>
        /\ exitStatus \in {0, 1}
        /\ exitStatus = 0 <=> CompletedNormally
        /\ stageRun.stage \in {"02", "03"} =>
              (stageRun.snapshot.status # "ok" => exitStatus = 1 /\ stageLog = <<>>)
        /\ stageRun.stage = "05" =>
              /\ stageRun.db # "ok" => exitStatus = 1 /\ stageLog = <<>>
              /\ (\E f \in DOMAIN stageRun.files : stageRun.files[f].status = "undecodable")
                    => exitStatus = 1
              /\ \A f \in Skipped05 : \A i \in 1..Len(stageLog) : stageLog[i] # "ingest_" \o f
              /\ (stageRun.db = "ok" /\ Skipped05 = DOMAIN stageRun.files)
                    => (exitStatus = 0 /\ stageLog = <<"connect", "load", "end">>)

\* stage 05 ran to its end with status 0 on a markets artifact alone, the
\* live-price artifact missing and the historical one no JSON
C24_Witness ==
    /\ StageExited /\ stageRun.stage = "05"
    /\ exitStatus = 0
    /\ stageRun.files.live_prices.status = "missing"
    /\ stageRun.files.historical_prices.status = "unparsable"
    /\ stageLog = <<"connect", "load", "ingest_markets", "end">>
    /\ RowCount(markets) = 1

====
